---------------------------- MODULE Spec2Model ----------------------------
(***************************************************************************)
(* Model of the odinsam-gitcommit extension.                               *)
(*                                                                         *)
(* Git Flow: GitFlowService (init, the start and finish operations) and    *)
(* the commands that drive it, over an abstract git repository (branches,  *)
(* commits, tags, repository-scoped settings).  Every git command the      *)
(* service awaits is one step of the model; a service call is the sequence *)
(* of commands its code issues.                                            *)
(*                                                                         *)
(* Commit messages: messageCombine (the template renderer), the version    *)
(* lookup of VersionService and ConfigService behind it, and the branch    *)
(* classifier getCurrentBranchType.  These compute a value from the state  *)
(* they read; each has a specification of its own (SpecRender,             *)
(* SpecVersion, SpecClassify) whose initial states draw that state from    *)
(* bounded sets.                                                           *)
(***************************************************************************)
EXTENDS Integers, Sequences, FiniteSets, TLC

VARIABLES
    inRepo,     \* getRepositoryRoot() !== null
    settings,   \* git config: key -> value, Unset when the key is absent
    branches,   \* local branches: name -> commit id
    head,       \* the checked-out branch
    parents,    \* commit graph: commit id -> sequence of parent ids
    tags,       \* annotated tags: name -> [commit, msg]
    op,         \* the service call in flight (or the last one finished)
    log,        \* commands issued by op so far: [c, a, m, ok]
    message,    \* the GitCommitMessage being composed (template and fields)
    workspace,  \* extension settings, the file in focus, .gitcommit, version files
    result,     \* the value the last call of a query or of the renderer returned
    session     \* the commit session: the prompt that is open, the commit input box

vars == <<inRepo, settings, branches, head, parents, tags, op, log,
          message, workspace, result, session>>

repo == <<settings, branches, head, parents, tags>>

----------------------------------------------------------------------------
(* Bounds *)

\* commits the repository may hold
MaxCommits == 4

\* service calls that reach their command sequence in one behaviour
MaxOps == 2

\* names and versions given to the start and finish operations
FeatureNames == {"login"}
Versions == {"1.0.0"}

\* what the user may type into the name and version boxes
FeatureInputs == {"login", "v1.0"}
VersionInputs == {"1.0.0", " "}

\* tag messages typed by the user ("" is an empty input box)
TagMessages == {"", "ship it"}

----------------------------------------------------------------------------
(* Settings *)

Unset == "?unset"
Undefined == "?undefined"
Null == "?null"

KeyMaster == "gitflow.branch.master"
KeyDevelop == "gitflow.branch.develop"
KeyFeature == "gitflow.prefix.feature"
KeyRelease == "gitflow.prefix.release"
KeyHotfix == "gitflow.prefix.hotfix"
KeySupport == "gitflow.prefix.support"
KeyVersionTag == "gitflow.prefix.versiontag"

Keys == {KeyMaster, KeyDevelop, KeyFeature, KeyRelease, KeyHotfix, KeySupport, KeyVersionTag}

DEFAULT_CONFIG ==
    [masterBranch |-> "master", developBranch |-> "develop",
     featurePrefix |-> "feature/", releasePrefix |-> "release/",
     hotfixPrefix |-> "hotfix/", supportPrefix |-> "support/",
     versionTagPrefix |-> ""]

NoConfig ==
    [masterBranch |-> Undefined, developBranch |-> Undefined,
     featurePrefix |-> Undefined, releasePrefix |-> Undefined,
     hotfixPrefix |-> Undefined, supportPrefix |-> Undefined,
     versionTagPrefix |-> Undefined]

\* Partial<GitFlowConfig> values handed to init
InitConfigs ==
    { NoConfig,
      [NoConfig EXCEPT !.releasePrefix = "rel/", !.versionTagPrefix = "v"] }

\* variant: only the given values are kept, without the defaults
finalConfig_GivenOnly(config) ==
    [k \in DOMAIN DEFAULT_CONFIG |-> IF config[k] = Undefined THEN "" ELSE config[k]]

\* { ...DEFAULT_CONFIG, ...config }
finalConfig(config) ==
    [k \in DOMAIN DEFAULT_CONFIG |->
        IF config[k] = Undefined THEN DEFAULT_CONFIG[k] ELSE config[k]]

----------------------------------------------------------------------------
(* Strings *)

startsWith(s, p) == Len(s) >= Len(p) /\ SubSeq(s, 1, Len(p)) = p

includes(s, p) ==
    \E i \in 1..(Len(s) - Len(p) + 1) : SubSeq(s, i, i + Len(p) - 1) = p

----------------------------------------------------------------------------
(* The commit graph *)

RECURSIVE Ancestors(_)
Ancestors(c) ==
    {c} \cup UNION { Ancestors(parents[c][i]) : i \in 1..Len(parents[c]) }

\* commit a is contained in the history of commit b
Contains(b, a) == a \in Ancestors(b)

headCommit == branches[head]

isMergeCommit(c) == Len(parents[c]) = 2


----------------------------------------------------------------------------
(* The command sequences of GitFlowService *)

Cmd(c, a, m) == [c |-> c, a |-> a, m |-> m]

\* the settings a completed init has written
written(cfg) ==
    (KeyMaster :> cfg.masterBranch) @@ (KeyDevelop :> cfg.developBranch) @@
    (KeyFeature :> cfg.featurePrefix) @@ (KeyRelease :> cfg.releasePrefix) @@
    (KeyHotfix :> cfg.hotfixPrefix) @@ (KeySupport :> cfg.supportPrefix) @@
    (KeyVersionTag :> cfg.versionTagPrefix)

\* init: the seven settings, then "ensure the develop branch exists"
initCmds(cfg) ==
    << Cmd("config", KeyMaster, cfg.masterBranch),
       Cmd("config", KeyDevelop, cfg.developBranch),
       Cmd("config", KeyFeature, cfg.featurePrefix),
       Cmd("config", KeyRelease, cfg.releasePrefix),
       Cmd("config", KeyHotfix, cfg.hotfixPrefix),
       Cmd("config", KeySupport, cfg.supportPrefix),
       Cmd("config", KeyVersionTag, cfg.versionTagPrefix),
       Cmd("ensure-branch", cfg.developBranch, "") >>

startFeatureCmds(developBranch, branchName) ==
    << Cmd("checkout", developBranch, ""),
       Cmd("pull", developBranch, ""),
       Cmd("checkout-b", branchName, "") >>

startReleaseCmds(developBranch, branchName) ==
    << Cmd("checkout", developBranch, ""),
       Cmd("pull", developBranch, ""),
       Cmd("checkout-b", branchName, "") >>

\* variant: the hotfix is branched from the development branch
startHotfixCmds_FromDevelop(masterBranch, branchName) ==
    << Cmd("checkout", settings[KeyDevelop], ""),
       Cmd("pull", settings[KeyDevelop], ""),
       Cmd("checkout-b", branchName, "") >>

startHotfixCmds(masterBranch, branchName) ==
    << Cmd("checkout", masterBranch, ""),
       Cmd("pull", masterBranch, ""),
       Cmd("checkout-b", branchName, "") >>

\* variant: the branch is deleted whatever keepBranch says
deleteUnlessKept_Always(keepBranch, branchName) ==
    << Cmd("branch-d", branchName, "") >>

\* if (!keepBranch) { branch -d branchName }
deleteUnlessKept(keepBranch, branchName) ==
    IF keepBranch THEN << >> ELSE << Cmd("branch-d", branchName, "") >>

\* variant: the feature is merged into the stable branch as well
finishFeatureCmds_ViaStable(developBranch, branchName, keepBranch) ==
    << Cmd("checkout", settings[KeyMaster], ""),
       Cmd("merge", branchName, ""),
       Cmd("checkout", developBranch, ""),
       Cmd("pull", developBranch, ""),
       Cmd("merge", branchName, "") >>
    \o deleteUnlessKept(keepBranch, branchName)

finishFeatureCmds(developBranch, branchName, keepBranch) ==
    << Cmd("checkout", developBranch, ""),
       Cmd("pull", developBranch, ""),
       Cmd("merge", branchName, "") >>
    \o deleteUnlessKept(keepBranch, branchName)

\* variant: the tag is created last, on the development branch
finishReleaseCmds_TagLate(masterBranch, developBranch, branchName, tagName, tagMsg, keepBranch) ==
    << Cmd("checkout", masterBranch, ""),
       Cmd("pull", masterBranch, ""),
       Cmd("merge", branchName, ""),
       Cmd("checkout", developBranch, ""),
       Cmd("pull", developBranch, ""),
       Cmd("merge", branchName, ""),
       Cmd("tag", tagName, tagMsg) >>
    \o deleteUnlessKept(keepBranch, branchName)

finishReleaseCmds(masterBranch, developBranch, branchName, tagName, tagMsg, keepBranch) ==
    << Cmd("checkout", masterBranch, ""),
       Cmd("pull", masterBranch, ""),
       Cmd("merge", branchName, ""),
       Cmd("tag", tagName, tagMsg),
       Cmd("checkout", developBranch, ""),
       Cmd("pull", developBranch, ""),
       Cmd("merge", branchName, "") >>
    \o deleteUnlessKept(keepBranch, branchName)

\* variant: the tag is created before the merge into the stable branch
finishHotfixCmds_TagFirst(masterBranch, developBranch, branchName, tagName, tagMsg, keepBranch) ==
    << Cmd("checkout", masterBranch, ""),
       Cmd("pull", masterBranch, ""),
       Cmd("tag", tagName, tagMsg),
       Cmd("merge", branchName, ""),
       Cmd("checkout", developBranch, ""),
       Cmd("pull", developBranch, ""),
       Cmd("merge", branchName, "") >>
    \o deleteUnlessKept(keepBranch, branchName)

\* variant: the development branch is merged first, the stable branch last
finishHotfixCmds_StableLast(masterBranch, developBranch, branchName, tagName, tagMsg, keepBranch) ==
    << Cmd("checkout", developBranch, ""),
       Cmd("pull", developBranch, ""),
       Cmd("merge", branchName, ""),
       Cmd("checkout", masterBranch, ""),
       Cmd("pull", masterBranch, ""),
       Cmd("merge", branchName, ""),
       Cmd("tag", tagName, tagMsg) >>
    \o deleteUnlessKept(keepBranch, branchName)

finishHotfixCmds(masterBranch, developBranch, branchName, tagName, tagMsg, keepBranch) ==
    << Cmd("checkout", masterBranch, ""),
       Cmd("pull", masterBranch, ""),
       Cmd("merge", branchName, ""),
       Cmd("tag", tagName, tagMsg),
       Cmd("checkout", developBranch, ""),
       Cmd("pull", developBranch, ""),
       Cmd("merge", branchName, "") >>
    \o deleteUnlessKept(keepBranch, branchName)

\* variant: the message is used as given, without a default
releaseTagMsg_AsGiven(tagMessage, version) == tagMessage

\* tagMessage || `Release ${version}`
releaseTagMsg(tagMessage, version) ==
    IF tagMessage = Undefined \/ tagMessage = "" THEN "Release " \o version ELSE tagMessage

\* tagMessage || `Hotfix ${version}`
hotfixTagMsg(tagMessage, version) ==
    IF tagMessage = Undefined \/ tagMessage = "" THEN "Hotfix " \o version ELSE tagMessage

\* variant: a failing merge is swallowed like a failing pull
isFatal_MergeIgnored(cmd) == cmd.c \notin {"pull", "merge"}

\* variant: a failing pull ends the operation
isFatal_PullToo(cmd) == TRUE

\* a failing command ends the operation, except a pull, whose rejection is
\* caught and logged
isFatal(cmd) == cmd.c # "pull"

\* variant: the settings are read without looking for the repository
isInitialized_AnyDirectory ==
    settings[KeyMaster] # Unset /\ settings[KeyMaster] # ""

\* git config --get gitflow.branch.master answers a non-empty value
isInitialized ==
    inRepo /\ settings[KeyMaster] # Unset /\ settings[KeyMaster] # ""

----------------------------------------------------------------------------
(* Entering a service call *)

Snapshot == [branches |-> branches, tags |-> tags, head |-> head, settings |-> settings]

\* A call made while another call is in flight does not wait for it: the
\* call in flight stays in waiting, its next command still to be issued.
NewOp(kind, dismissed, arg, keep) ==
    [n |-> op.n,
     kind |-> kind, status |-> "running", err |-> "", prog |-> << >>, pc |-> 1,
     arg |-> arg, keep |-> keep, branch |-> "", tag |-> "",
     config |-> NoConfig, tagMessage |-> Undefined,
     dismissed |-> dismissed, pre |-> Snapshot,
     waiting |-> IF op.status = "running" THEN << [op EXCEPT !.waiting = << >>] >>
                 ELSE op.waiting]

\* the call throws before its first command
Throw(o, e) ==
    /\ op' = [o EXCEPT !.status = "error", !.err = e]
    /\ log' = << >>
    /\ UNCHANGED <<session, message, workspace, result, inRepo, settings, branches, head, parents, tags>>

\* the call enters its command sequence
Run(o, prog) ==
    /\ op' = [o EXCEPT !.prog = prog, !.n = @ + 1]
    /\ log' = << >>
    /\ UNCHANGED <<session, message, workspace, result, inRepo, settings, branches, head, parents, tags>>

\* the guarded config reads: config --get throws when a key is absent
Missing(keys) == \E k \in keys : settings[k] = Unset

init(config, dismissed) ==
    LET o == [NewOp("init", dismissed, "", FALSE) EXCEPT !.config = config] IN
    IF ~inRepo THEN Throw(o, "no-repo")
    ELSE Run(o, initCmds(finalConfig(config)))

startFeature(featureName, dismissed) ==
    LET o == NewOp("startFeature", dismissed, featureName, FALSE) IN
    IF ~inRepo THEN Throw(o, "no-repo")
    ELSE IF ~isInitialized THEN Throw(o, "not-initialized")
    ELSE IF Missing({KeyDevelop, KeyFeature}) THEN Throw(o, "git")
    ELSE LET branchName == settings[KeyFeature] \o featureName IN
         Run([o EXCEPT !.branch = branchName],
             startFeatureCmds(settings[KeyDevelop], branchName))

finishFeature(featureName, keepBranch, dismissed) ==
    LET o == NewOp("finishFeature", dismissed, featureName, keepBranch) IN
    IF ~inRepo THEN Throw(o, "no-repo")
    ELSE IF Missing({KeyDevelop, KeyFeature}) THEN Throw(o, "git")
    ELSE LET branchName == settings[KeyFeature] \o featureName IN
         Run([o EXCEPT !.branch = branchName],
             finishFeatureCmds(settings[KeyDevelop], branchName, keepBranch))

startRelease(version, dismissed) ==
    LET o == NewOp("startRelease", dismissed, version, FALSE) IN
    IF ~inRepo THEN Throw(o, "no-repo")
    ELSE IF ~isInitialized THEN Throw(o, "not-initialized")
    ELSE IF Missing({KeyDevelop, KeyRelease}) THEN Throw(o, "git")
    ELSE LET branchName == settings[KeyRelease] \o version IN
         Run([o EXCEPT !.branch = branchName],
             startReleaseCmds(settings[KeyDevelop], branchName))

finishRelease(version, keepBranch, tagMessage, dismissed) ==
    LET o == [NewOp("finishRelease", dismissed, version, keepBranch)
                 EXCEPT !.tagMessage = tagMessage] IN
    IF ~inRepo THEN Throw(o, "no-repo")
    ELSE IF Missing({KeyMaster, KeyDevelop, KeyRelease, KeyVersionTag}) THEN Throw(o, "git")
    ELSE LET branchName == settings[KeyRelease] \o version
             tagName == settings[KeyVersionTag] \o version IN
         Run([o EXCEPT !.branch = branchName, !.tag = tagName],
             finishReleaseCmds(settings[KeyMaster], settings[KeyDevelop], branchName,
                               tagName, releaseTagMsg(tagMessage, version), keepBranch))

startHotfix(version, dismissed) ==
    LET o == NewOp("startHotfix", dismissed, version, FALSE) IN
    IF ~inRepo THEN Throw(o, "no-repo")
    ELSE IF ~isInitialized THEN Throw(o, "not-initialized")
    ELSE IF Missing({KeyMaster, KeyHotfix}) THEN Throw(o, "git")
    ELSE LET branchName == settings[KeyHotfix] \o version IN
         Run([o EXCEPT !.branch = branchName],
             startHotfixCmds(settings[KeyMaster], branchName))

finishHotfix(version, keepBranch, tagMessage, dismissed) ==
    LET o == [NewOp("finishHotfix", dismissed, version, keepBranch)
                 EXCEPT !.tagMessage = tagMessage] IN
    IF ~inRepo THEN Throw(o, "no-repo")
    ELSE IF Missing({KeyMaster, KeyDevelop, KeyHotfix, KeyVersionTag}) THEN Throw(o, "git")
    ELSE LET branchName == settings[KeyHotfix] \o version
             tagName == settings[KeyVersionTag] \o version IN
         Run([o EXCEPT !.branch = branchName, !.tag = tagName],
             finishHotfixCmds(settings[KeyMaster], settings[KeyDevelop], branchName,
                              tagName, hotfixTagMsg(tagMessage, version), keepBranch))


----------------------------------------------------------------------------
(* One awaited git command: executeGitCommand resolves or rejects *)

Running(c) == op.status = "running" /\ op.prog[op.pc].c = c

cur == op.prog[op.pc]

\* the awaited command has resolved (ok) or rejected (~ok)
Settle(cmd, ok) ==
    /\ log' = Append(log, [c |-> cmd.c, a |-> cmd.a, m |-> cmd.m, ok |-> ok])
    /\ op' = IF ~ok /\ isFatal(cmd)
                THEN [op EXCEPT !.status = "error", !.err = "git"]
             ELSE IF op.pc = Len(op.prog)
                THEN [op EXCEPT !.status = "ok", !.pc = @ + 1]
             ELSE [op EXCEPT !.pc = @ + 1]

\* git checkout <branch>
canCheckout(b) == b \in DOMAIN branches

\* variant: the branch is created or reset whether it exists or not (-B)
canCreate_Force(b) == TRUE

\* git checkout -b <branch>
canCreate(b) == b \notin DOMAIN branches

\* git merge --no-ff <branch>: nothing to do when the branch is already
\* contained in HEAD ("Already up to date."), a merge commit otherwise
canMerge(b) == b \in DOMAIN branches

upToDate(b) == Contains(headCommit, branches[b])

\* variant: the merge records the branch as the only parent (a fast-forward)
mergeCommit_FastForward(b) == << branches[b] >>

\* the commit --no-ff records: first parent HEAD, second parent the branch
mergeCommit(b) == << headCommit, branches[b] >>

\* git tag -a <tag> -m <msg>
canTag(t) == t \notin DOMAIN tags

\* git branch -d <branch>: the branch exists, is not checked out and is
\* fully merged into HEAD
canDelete(b) ==
    /\ b \in DOMAIN branches
    /\ b # head
    /\ Contains(headCommit, branches[b])

\* variant: the checkout succeeds and leaves the branch that was checked out
DoCheckout_Stay ==
    /\ Running("checkout")
    /\ \E rejected \in BOOLEAN :
         LET ok == canCheckout(cur.a) /\ ~rejected IN
         /\ head' = head
         /\ Settle(cur, ok)
    /\ UNCHANGED <<session, message, workspace, result, inRepo, settings, branches, parents, tags>>

DoCheckout ==
    /\ Running("checkout")
    /\ \E rejected \in BOOLEAN :
         LET ok == canCheckout(cur.a) /\ ~rejected IN
         /\ head' = IF ok THEN cur.a ELSE head
         /\ Settle(cur, ok)
    /\ UNCHANGED <<session, message, workspace, result, inRepo, settings, branches, parents, tags>>

\* git pull origin <branch>: fails (no remote, offline), finds nothing new,
\* or fast-forwards the checked-out branch to a commit of the remote
DoPull ==
    /\ Running("pull")
    /\ \/ /\ Settle(cur, FALSE)
          /\ UNCHANGED <<branches, parents>>
       \/ /\ Settle(cur, TRUE)
          /\ UNCHANGED <<branches, parents>>
       \/ /\ Len(parents) < MaxCommits
          /\ parents' = Append(parents, << headCommit >>)
          /\ branches' = [branches EXCEPT ![head] = Len(parents) + 1]
          /\ Settle(cur, TRUE)
    /\ UNCHANGED <<session, message, workspace, result, inRepo, settings, head, tags>>

DoCheckoutNew ==
    /\ Running("checkout-b")
    /\ \E rejected \in BOOLEAN :
         LET ok == canCreate(cur.a) /\ ~rejected IN
         /\ branches' = IF ok THEN (cur.a :> headCommit) @@ branches ELSE branches
         /\ head' = IF ok THEN cur.a ELSE head
         /\ Settle(cur, ok)
    /\ UNCHANGED <<session, message, workspace, result, inRepo, settings, parents, tags>>

DoMerge ==
    /\ Running("merge")
    /\ \/ /\ Settle(cur, FALSE)          \* missing branch, conflict, dirty tree
          /\ UNCHANGED <<branches, parents>>
       \/ /\ canMerge(cur.a)
          /\ upToDate(cur.a)
          /\ Settle(cur, TRUE)
          /\ UNCHANGED <<branches, parents>>
       \/ /\ canMerge(cur.a)
          /\ ~upToDate(cur.a)
          /\ Len(parents) < MaxCommits
          /\ parents' = Append(parents, mergeCommit(cur.a))
          /\ branches' = [branches EXCEPT ![head] = Len(parents) + 1]
          /\ Settle(cur, TRUE)
    /\ UNCHANGED <<session, message, workspace, result, inRepo, settings, head, tags>>

DoTag ==
    /\ Running("tag")
    /\ \E rejected \in BOOLEAN :
         LET ok == canTag(cur.a) /\ ~rejected IN
         /\ tags' = IF ok THEN (cur.a :> [commit |-> headCommit, msg |-> cur.m]) @@ tags
                    ELSE tags
         /\ Settle(cur, ok)
    /\ UNCHANGED <<session, message, workspace, result, inRepo, settings, branches, head, parents>>

DoBranchDelete ==
    /\ Running("branch-d")
    /\ \E rejected \in BOOLEAN :
         LET ok == canDelete(cur.a) /\ ~rejected IN
         /\ branches' = IF ok THEN [b \in DOMAIN branches \ {cur.a} |-> branches[b]]
                        ELSE branches
         /\ Settle(cur, ok)
    /\ UNCHANGED <<session, message, workspace, result, inRepo, settings, head, parents, tags>>

\* git config <key> <value>
DoConfig ==
    /\ Running("config")
    /\ \E rejected \in BOOLEAN :
         /\ settings' = IF rejected THEN settings ELSE [settings EXCEPT ![cur.a] = cur.m]
         /\ Settle(cur, ~rejected)
    /\ UNCHANGED <<session, message, workspace, result, inRepo, branches, head, parents, tags>>

\* branches.includes(developBranch) on the output of git branch --list
listed(developBranch) == \E b \in DOMAIN branches : includes(b, developBranch)

\* init: git branch --list, then checkout -b develop unless it is listed
DoEnsureDevelop ==
    /\ Running("ensure-branch")
    /\ IF listed(cur.a)
          THEN /\ \/ op' = [op EXCEPT !.status = "ok", !.pc = @ + 1]
                  \/ op' = [op EXCEPT !.status = "error", !.err = "git"]
               /\ UNCHANGED <<branches, head, log>>
          ELSE \E rejected \in BOOLEAN :
                 LET ok == canCreate(cur.a) /\ ~rejected
                     cmd == Cmd("checkout-b", cur.a, "") IN
                 /\ branches' = IF ok THEN (cur.a :> headCommit) @@ branches ELSE branches
                 /\ head' = IF ok THEN cur.a ELSE head
                 /\ Settle(cmd, ok)
    /\ UNCHANGED <<session, message, workspace, result, inRepo, settings, parents, tags>>


----------------------------------------------------------------------------
(* Calls of the service by any caller *)

Idle == op.status # "running" /\ op.n < MaxOps

ApiInit ==
    /\ Idle
    /\ \E config \in InitConfigs : init(config, FALSE)

ApiStartFeature ==
    /\ Idle
    /\ \E featureName \in FeatureNames : startFeature(featureName, FALSE)

ApiFinishFeature ==
    /\ Idle
    /\ \E featureName \in FeatureNames, keepBranch \in BOOLEAN :
         finishFeature(featureName, keepBranch, FALSE)

ApiStartRelease ==
    /\ Idle
    /\ \E version \in Versions : startRelease(version, FALSE)

ApiFinishRelease ==
    /\ Idle
    /\ \E version \in Versions, keepBranch \in BOOLEAN, tagMessage \in TagMessages \cup {Undefined} :
         finishRelease(version, keepBranch, tagMessage, FALSE)

ApiStartHotfix ==
    /\ Idle
    /\ \E version \in Versions : startHotfix(version, FALSE)

ApiFinishHotfix ==
    /\ Idle
    /\ \E version \in Versions, keepBranch \in BOOLEAN, tagMessage \in TagMessages \cup {Undefined} :
         finishHotfix(version, keepBranch, tagMessage, FALSE)

\* A call while another is in flight: the service has no lock and no queue,
\* so the call reads its settings and issues its commands at once.
Busy == op.status = "running" /\ op.waiting = << >>

SecondFinishFeature ==
    /\ Busy
    /\ \E featureName \in FeatureNames : finishFeature(featureName, FALSE, FALSE)

SecondFinishRelease ==
    /\ Busy
    /\ \E version \in Versions : finishRelease(version, FALSE, Undefined, FALSE)

\* of two calls in flight, the other one's awaited command is the next to
\* resolve: op is the call whose command settles next
Yield ==
    /\ op.waiting # << >>
    /\ op.waiting[1].status = "running"
    /\ op' = [op.waiting[1] EXCEPT !.waiting = << [op EXCEPT !.waiting = << >>] >>]
    /\ UNCHANGED <<session, message, workspace, result, inRepo, settings, branches, head,
                   parents, tags, log>>

----------------------------------------------------------------------------
(* The extension commands: prompts, then the service call *)

\* the white space String.prototype.trim removes
WhiteSpace == {" ", "\n", "\t", "\r"}

RECURSIVE trimStart(_)
trimStart(s) ==
    IF Len(s) > 0 /\ SubSeq(s, 1, 1) \in WhiteSpace
        THEN trimStart(SubSeq(s, 2, Len(s))) ELSE s

RECURSIVE trimEnd(_)
trimEnd(s) ==
    IF Len(s) > 0 /\ SubSeq(s, Len(s), Len(s)) \in WhiteSpace
        THEN trimEnd(SubSeq(s, 1, Len(s) - 1)) ELSE s

trim(s) == trimEnd(trimStart(s))

\* tagMessage?.trim()
trimOpt(s) == IF s = Undefined THEN Undefined ELSE trim(s)

\* s.replace(/^<literal>/, '')
stripLeading(s, literal) ==
    IF startsWith(s, literal) THEN SubSeq(s, Len(literal) + 1, Len(s)) ELSE s

AlnumDash ==
    {"a", "b", "c", "d", "e", "f", "g", "h", "i", "j", "k", "l", "m", "n", "o", "p",
     "q", "r", "s", "t", "u", "v", "w", "x", "y", "z", "0", "1", "2", "3", "4", "5",
     "6", "7", "8", "9", "-"}

\* validateInput of the feature name box: non-blank and /^[a-z0-9-]+$/i
validFeatureName(value) ==
    /\ trim(value) # ""
    /\ \A i \in 1..Len(value) : SubSeq(value, i, i) \in AlnumDash

\* validateInput of the version boxes: non-blank
validVersion(value) == trim(value) # ""

\* the answers of the keep-or-delete pick; Undefined is a dismissed pick
KeepPicks == {"delete", "keep", Undefined}

\* keepBranch?.value || false
keepValue(pick) == pick = "keep"

prefixOr(key, fallback) == IF settings[key] = Unset THEN fallback ELSE settings[key]

branchesWith(prefix) ==
    {b \in DOMAIN branches : startsWith(b, prefix) /\ Len(b) > Len(prefix)}

getFeatureBranches ==
    IF ~inRepo THEN {} ELSE branchesWith(prefixOr(KeyFeature, "feature/"))

getReleaseBranches ==
    IF ~inRepo THEN {} ELSE branchesWith(prefixOr(KeyRelease, "release/"))

getHotfixBranches ==
    IF ~inRepo THEN {} ELSE branchesWith(prefixOr(KeyHotfix, "hotfix/"))

\* the command returns without calling the service
Quit(kind, status, dismissed) ==
    /\ op' = [NewOp(kind, dismissed, "", FALSE) EXCEPT !.status = status]
    /\ log' = << >>
    /\ UNCHANGED <<session, message, workspace, result, inRepo, settings, branches, head, parents, tags>>

MasterInputs == {"master", " "}
DevelopInputs == {"dev"}

gitFlowInit ==
    /\ Idle
    /\ \E overwrite \in {"reinit", "cancel", Undefined},
          masterBranch \in MasterInputs \cup {Undefined},
          developBranch \in DevelopInputs \cup {Undefined} :
         IF isInitialized /\ overwrite # "reinit" THEN Quit("init", "cancelled", TRUE)
         ELSE IF masterBranch = Undefined THEN Quit("init", "cancelled", TRUE)
         ELSE IF developBranch = Undefined THEN Quit("init", "cancelled", TRUE)
         ELSE init([NoConfig EXCEPT !.masterBranch = trim(masterBranch),
                                    !.developBranch = trim(developBranch)], FALSE)

gitFlowFeatureStart ==
    /\ Idle
    /\ IF ~inRepo THEN Quit("startFeature", "warned", FALSE)
       ELSE \E featureName \in {n \in FeatureInputs : validFeatureName(n)} \cup {Undefined} :
              IF featureName = Undefined THEN Quit("startFeature", "cancelled", TRUE)
              ELSE startFeature(trim(featureName), FALSE)

gitFlowFeatureFinish ==
    /\ Idle
    /\ IF ~inRepo THEN Quit("finishFeature", "warned", FALSE)
       ELSE IF getFeatureBranches = {} THEN Quit("finishFeature", "warned", FALSE)
       ELSE \E selected \in getFeatureBranches \cup {Undefined}, keepBranch \in KeepPicks :
              IF selected = Undefined THEN Quit("finishFeature", "cancelled", TRUE)
              ELSE finishFeature(stripLeading(selected, "feature/"), keepValue(keepBranch),
                                 keepBranch = Undefined)

gitFlowReleaseStart ==
    /\ Idle
    /\ \E version \in {n \in VersionInputs : validVersion(n)} \cup {Undefined} :
         IF version = Undefined THEN Quit("startRelease", "cancelled", TRUE)
         ELSE startRelease(trim(version), FALSE)

gitFlowReleaseFinish ==
    /\ Idle
    /\ IF ~inRepo THEN Quit("finishRelease", "warned", FALSE)
       ELSE IF getReleaseBranches = {} THEN Quit("finishRelease", "warned", FALSE)
       ELSE \E selected \in getReleaseBranches \cup {Undefined},
               tagMessage \in TagMessages \cup {Undefined},
               keepBranch \in KeepPicks :
              IF selected = Undefined THEN Quit("finishRelease", "cancelled", TRUE)
              ELSE finishRelease(stripLeading(selected, "release/"), keepValue(keepBranch),
                                 trimOpt(tagMessage),
                                 tagMessage = Undefined \/ keepBranch = Undefined)

gitFlowHotfixStart ==
    /\ Idle
    /\ IF ~inRepo THEN Quit("startHotfix", "warned", FALSE)
       ELSE \E version \in {n \in VersionInputs : validVersion(n)} \cup {Undefined} :
              IF version = Undefined THEN Quit("startHotfix", "cancelled", TRUE)
              ELSE startHotfix(trim(version), FALSE)

gitFlowHotfixFinish ==
    /\ Idle
    /\ IF ~inRepo THEN Quit("finishHotfix", "warned", FALSE)
       ELSE IF getHotfixBranches = {} THEN Quit("finishHotfix", "warned", FALSE)
       ELSE \E selected \in getHotfixBranches \cup {Undefined},
               tagMessage \in TagMessages \cup {Undefined},
               keepBranch \in KeepPicks :
              IF selected = Undefined THEN Quit("finishHotfix", "cancelled", TRUE)
              ELSE finishHotfix(stripLeading(selected, "hotfix/"), keepValue(keepBranch),
                                trimOpt(tagMessage),
                                tagMessage = Undefined \/ keepBranch = Undefined)

----------------------------------------------------------------------------
(* The value a query or the renderer hands back *)

Failure == "?error"

NoResult == [fn |-> "none", value |-> "", n |-> 0]

Returned(fn, value) == [fn |-> fn, value |-> value, n |-> result.n + 1]

----------------------------------------------------------------------------
(* GitFlowService.getCurrentBranchType: the branch classifier *)

\* variant: the release prefix is tested before the feature prefix
getCurrentBranchType_ReleaseFirst ==
    IF ~inRepo THEN Null
    ELSE LET currentBranch == head
             featurePrefix == prefixOr(KeyFeature, "feature/")
             releasePrefix == prefixOr(KeyRelease, "release/")
             hotfixPrefix == prefixOr(KeyHotfix, "hotfix/")
             supportPrefix == prefixOr(KeySupport, "support/")
         IN  IF startsWith(currentBranch, releasePrefix) THEN "release"
             ELSE IF startsWith(currentBranch, featurePrefix) THEN "feature"
             ELSE IF startsWith(currentBranch, hotfixPrefix) THEN "hotfix"
             ELSE IF startsWith(currentBranch, supportPrefix) THEN "support"
             ELSE Null

\* rev-parse --abbrev-ref HEAD, the four prefixes (config --get, or the
\* default when that fails), then the first prefix the branch starts with
getCurrentBranchType ==
    IF ~inRepo THEN Null
    ELSE LET currentBranch == head
             featurePrefix == prefixOr(KeyFeature, "feature/")
             releasePrefix == prefixOr(KeyRelease, "release/")
             hotfixPrefix == prefixOr(KeyHotfix, "hotfix/")
             supportPrefix == prefixOr(KeySupport, "support/")
         IN  IF startsWith(currentBranch, featurePrefix) THEN "feature"
             ELSE IF startsWith(currentBranch, releasePrefix) THEN "release"
             ELSE IF startsWith(currentBranch, hotfixPrefix) THEN "hotfix"
             ELSE IF startsWith(currentBranch, supportPrefix) THEN "support"
             ELSE Null

GetCurrentBranchType ==
    /\ result.fn = "none"
    /\ result' = Returned("getCurrentBranchType", getCurrentBranchType)
    /\ UNCHANGED <<session, message, workspace, inRepo, settings, branches, head, parents, tags,
                   op, log>>

----------------------------------------------------------------------------
(* The queries of GitFlowService, with their catch blocks: a git command   *)
(* that rejects inside the try makes the query return its fallback value   *)

Query(fn, value, fallback) ==
    /\ \E rejected \in BOOLEAN :
         result' = Returned(fn, IF rejected THEN fallback ELSE value)
    /\ UNCHANGED <<session, message, workspace, inRepo, settings, branches, head, parents, tags,
                   op, log>>

IsInitialized ==
    /\ result.fn = "none"
    /\ Query("isInitialized", isInitialized, FALSE)

GetBranchType ==
    /\ result.fn = "none"
    /\ Query("getCurrentBranchType", getCurrentBranchType, Null)

GetFeatureBranches ==
    /\ result.fn = "none"
    /\ Query("getFeatureBranches", getFeatureBranches, {})

GetReleaseBranches ==
    /\ result.fn = "none"
    /\ Query("getReleaseBranches", getReleaseBranches, {})

GetHotfixBranches ==
    /\ result.fn = "none"
    /\ Query("getHotfixBranches", getHotfixBranches, {})

----------------------------------------------------------------------------
(* odinsamGitCommit.gitFlow.show: "finish the current branch" *)

\* The panel offers "finish current branch" first when the current branch
\* has the role feature, release or hotfix; the other entries run the
\* commands above.  The name handed to the service is the branch name
\* without a leading "feature/", "release/" or "hotfix/"; a dismissed tag
\* message box or keep-or-delete pick does not end the command.
gitFlowShow ==
    /\ Idle
    /\ IF ~inRepo THEN Quit("show", "warned", FALSE)
       ELSE \E selected \in {"finish-current", Undefined},
               tagMessage \in TagMessages \cup {Undefined},
               keepBranch \in KeepPicks :
              LET currentBranchType == getCurrentBranchType
                  currentBranchName == head
              IN  IF selected = Undefined THEN Quit("show", "cancelled", TRUE)
                  ELSE IF currentBranchType = "feature"
                      THEN finishFeature(stripLeading(currentBranchName, "feature/"),
                                         keepValue(keepBranch), keepBranch = Undefined)
                  ELSE IF currentBranchType = "release"
                      THEN finishRelease(stripLeading(currentBranchName, "release/"),
                                         keepValue(keepBranch), trimOpt(tagMessage),
                                         tagMessage = Undefined \/ keepBranch = Undefined)
                  ELSE IF currentBranchType = "hotfix"
                      THEN finishHotfix(stripLeading(currentBranchName, "hotfix/"),
                                        keepValue(keepBranch), trimOpt(tagMessage),
                                        tagMessage = Undefined \/ keepBranch = Undefined)
                  ELSE Quit("show", "cancelled", TRUE)

----------------------------------------------------------------------------
(* ConfigService and VersionService: the version of the project at hand *)

\* git rev-parse --short=8 of each commit
Hashes == << "a1b2c3d4", "0f9e8d7c", "5566aabb", "9c8b7a6d", "13572468", "24681357" >>

shortHash(c) == Hashes[c]

\* the versionRegex strings of the .gitcommit files at hand
VersionRegex == "version: ([0-9.]+)"

WholeRegex == "version: [0-9.]+"

LooseRegex == "version: ([0-9. ]*)"

BrokenRegex == "version: ("

VersionChars == {"0", "1", "2", "3", "4", "5", "6", "7", "8", "9", "."}

\* new RegExp(versionRegex): a literal followed by a run of characters of a
\* class, at least min of them, the run being the first capture group when
\* group is TRUE; valid = FALSE when the constructor throws a SyntaxError
RegExp(source) ==
    CASE source = VersionRegex ->
            [valid |-> TRUE, literal |-> "version: ", class |-> VersionChars,
             min |-> 1, group |-> TRUE]
      [] source = WholeRegex ->
            [valid |-> TRUE, literal |-> "version: ", class |-> VersionChars,
             min |-> 1, group |-> FALSE]
      [] source = LooseRegex ->
            [valid |-> TRUE, literal |-> "version: ", class |-> VersionChars \cup {" "},
             min |-> 0, group |-> TRUE]
      [] OTHER ->
            [valid |-> FALSE, literal |-> "", class |-> {}, min |-> 0, group |-> FALSE]

\* the longest run of characters of the class that starts at position i
runAt(content, class, i) ==
    LET lengths == {k \in 0..(Len(content) - i + 1) :
                       \A j \in i..(i + k - 1) : SubSeq(content, j, j) \in class}
    IN  CHOOSE k \in lengths : \A l \in lengths : l <= k

NoMatch == [found |-> FALSE, whole |-> "", first |-> Undefined]

\* content.match(regex): the leftmost match, the run taken greedily; first
\* is match[1], undefined when the pattern has no capture group
match(content, regex) ==
    LET n == Len(regex.literal)
        starts == {i \in 1..(Len(content) - n + 1) :
                      /\ SubSeq(content, i, i + n - 1) = regex.literal
                      /\ runAt(content, regex.class, i + n) >= regex.min}
        start == CHOOSE i \in starts : \A j \in starts : i <= j
        run == SubSeq(content, start + n,
                      start + n + runAt(content, regex.class, start + n) - 1)
    IN  IF starts = {} THEN NoMatch
        ELSE [found |-> TRUE, whole |-> regex.literal \o run,
              first |-> IF regex.group THEN run ELSE Undefined]

\* a GitCommitProjectConfig; found = FALSE stands for null
ProjectConfig(projectName, path, versionRegex) ==
    [found |-> TRUE, projectName |-> projectName, path |-> path,
     versionRegex |-> versionRegex]

NoProject == [found |-> FALSE, projectName |-> "", path |-> "", versionRegex |-> ""]

\* what readConfig returns: found = FALSE stands for null; multi = TRUE when
\* the object has a (truthy) config member
NoConfigFile ==
    [found |-> FALSE, multi |-> FALSE, projectName |-> "", path |-> "",
     versionRegex |-> "", config |-> << >>]

\* the nearest .gitcommit on the way up from the file in focus, as it is on
\* disk: whether there is one, whether JSON.parse accepts it, and the members
\* of the object it holds ("" for an absent string member).  configType is
\* the kind of value of the config member: "undefined" (absent), "array",
\* "object" (not an array, truthy) or "null" (not an array, falsy); config
\* holds the elements of an array.
MissingFile ==
    [exists |-> FALSE, parses |-> FALSE, projectName |-> "", path |-> "",
     versionRegex |-> "", configType |-> "undefined", config |-> << >>]

InvalidJson == [MissingFile EXCEPT !.exists = TRUE]

SingleProject ==
    [exists |-> TRUE, parses |-> TRUE, projectName |-> "app", path |-> "package.json",
     versionRegex |-> VersionRegex, configType |-> "undefined", config |-> << >>]

SingleWithoutRegex == [SingleProject EXCEPT !.versionRegex = ""]

SingleWithoutName == [SingleProject EXCEPT !.projectName = ""]

SingleWithoutPath == [SingleProject EXCEPT !.path = ""]

SingleRegexes ==
    {[SingleProject EXCEPT !.versionRegex = source] :
        source \in {WholeRegex, LooseRegex, BrokenRegex}}

ObjectConfig == [SingleProject EXCEPT !.configType = "object"]

NullConfig == [SingleProject EXCEPT !.configType = "null"]

MultiProject ==
    [exists |-> TRUE, parses |-> TRUE, projectName |-> "", path |-> "",
     versionRegex |-> "", configType |-> "array",
     config |-> << ProjectConfig("api", "api/package.json", VersionRegex),
                   ProjectConfig("web", "web/package.json", VersionRegex) >>]

MultiEmpty == [MultiProject EXCEPT !.config = << >>]

ConfigFiles ==
    {MissingFile, InvalidJson, SingleProject, SingleWithoutRegex, SingleWithoutName,
     SingleWithoutPath, ObjectConfig, NullConfig, MultiProject, MultiEmpty}
    \cup SingleRegexes

\* the version files, by path: the text of the file, Null when it is missing
VersionFiles ==
    { ("package.json" :> a) @@ ("api/package.json" :> b) @@ ("web/package.json" :> c) :
        a \in {Null, "version: 1.2.3 \n", "version: beta"},
        b \in {Null, "version: 2.0.0"},
        c \in {Null, "name: web\nversion: 3.1.0"} }

NoFiles ==
    ("package.json" :> Null) @@ ("api/package.json" :> Null) @@ ("web/package.json" :> Null)

FilePaths == {Undefined, "src/index.ts"}

ProjectNames == {Undefined, "api", "web", "docs"}

NoWorkspace ==
    [isShowEmoji |-> TRUE, autoVersion |-> FALSE,
     currentFilePath |-> Undefined, currentProjectName |-> Undefined,
     activeTextEditor |-> Undefined,
     configFile |-> MissingFile, files |-> NoFiles]

Min(S) == CHOOSE i \in S : \A j \in S : i <= j

\* variant: a config member that is not an array is ignored, and the record
\* read as a single project
readConfig_IgnoreConfig ==
    LET jsonConfig == workspace.configFile
        isArray == jsonConfig.configType = "array"
    IN  IF ~jsonConfig.exists \/ ~jsonConfig.parses THEN NoConfigFile
        ELSE IF ~isArray /\ (jsonConfig.projectName = "" \/ jsonConfig.path = "")
            THEN NoConfigFile
        ELSE [found |-> TRUE, multi |-> isArray,
              projectName |-> jsonConfig.projectName, path |-> jsonConfig.path,
              versionRegex |-> jsonConfig.versionRegex, config |-> jsonConfig.config]

\* ConfigService.findProjectRoot and readConfig: null when there is no file,
\* when JSON.parse throws, when the object has no config and lacks
\* projectName or path, and when its config is truthy but not an array
readConfig ==
    LET jsonConfig == workspace.configFile
        truthy == jsonConfig.configType \in {"array", "object"}
        isArray == jsonConfig.configType = "array"
    IN  IF ~jsonConfig.exists \/ ~jsonConfig.parses THEN NoConfigFile
        ELSE IF ~truthy /\ (jsonConfig.projectName = "" \/ jsonConfig.path = "")
            THEN NoConfigFile
        ELSE IF truthy /\ ~isArray THEN NoConfigFile
        ELSE [found |-> TRUE, multi |-> truthy,
              projectName |-> jsonConfig.projectName, path |-> jsonConfig.path,
              versionRegex |-> jsonConfig.versionRegex, config |-> jsonConfig.config]

\* ConfigService.getProjectConfig
getProjectConfig(projectName) ==
    LET named(configFile) ==
            {i \in 1..Len(configFile.config) :
                configFile.config[i].projectName = projectName}
        project(configFile) ==
            IF ~configFile.found THEN NoProject
            ELSE IF ~configFile.multi
                THEN IF configFile.projectName # "" /\ configFile.path # ""
                        /\ configFile.versionRegex # ""
                        THEN ProjectConfig(configFile.projectName, configFile.path,
                                           configFile.versionRegex)
                     ELSE NoProject
            ELSE IF projectName \notin {Undefined, ""} /\ named(configFile) # {}
                THEN configFile.config[Min(named(configFile))]
            ELSE IF Len(configFile.config) > 0 THEN configFile.config[1]
            ELSE NoProject
    IN  project(readConfig)

\* variant: the whole match is always the version
readVersionFromFile_WholeMatch(filePath, versionRegex) ==
    LET content == workspace.files[filePath]
        regex == RegExp(versionRegex)
        version(found) ==
            IF found.found /\ found.whole # "" THEN trim(found.whole)
            ELSE Null
    IN  IF content = Null THEN Null
        ELSE IF ~regex.valid THEN Null
        ELSE version(match(content, regex))

\* ConfigService.readVersionFromFile: null when the file is missing, when
\* the pattern is rejected and when it does not match; else match[1] when
\* it is truthy, else match[0] when it is truthy, trimmed
readVersionFromFile(filePath, versionRegex) ==
    LET content == workspace.files[filePath]
        regex == RegExp(versionRegex)
        version(found) ==
            IF found.found /\ found.first \notin {Undefined, ""} THEN trim(found.first)
            ELSE IF found.found /\ found.whole # "" THEN trim(found.whole)
            ELSE Null
    IN  IF content = Null THEN Null
        ELSE IF ~regex.valid THEN Null
        ELSE version(match(content, regex))

\* ConfigService.getProjectVersion; an empty version counts as none
getProjectVersion(startPath, projectName) ==
    LET nonEmpty(version) == IF version \notin {Null, ""} THEN version ELSE Null
        read(config) ==
            IF ~config.found THEN Null
            ELSE IF config.path # "" /\ config.versionRegex # ""
                THEN nonEmpty(readVersionFromFile(config.path, config.versionRegex))
            ELSE Null
    IN  read(getProjectConfig(projectName))

\* git describe --tags --exact-match HEAD ("" when it fails)
exactTag ==
    LET here == {t \in DOMAIN tags : tags[t].commit = headCommit}
    IN  IF ~inRepo \/ here = {} THEN "" ELSE CHOOSE t \in here : TRUE

\* VersionService.getLatestTag: git describe --tags --abbrev=0
getLatestTag ==
    LET reachable == {t \in DOMAIN tags : Contains(headCommit, tags[t].commit)}
    IN  IF ~inRepo \/ reachable = {} THEN Null
        ELSE IF exactTag # "" THEN exactTag
        ELSE CHOOSE t \in reachable : TRUE

\* VersionService.getCurrentBranch
getCurrentBranch == IF inRepo THEN head ELSE Null

\* variant: the tag of the current commit is preferred to the project config
getCurrentVersion_TagFirst(filePath, projectName) ==
    LET current(configVersion) ==
            IF exactTag # "" THEN exactTag
            ELSE IF configVersion # Null THEN configVersion
            ELSE IF ~inRepo THEN Failure
            ELSE shortHash(headCommit)
    IN  current(IF filePath # Undefined THEN getProjectVersion(filePath, projectName)
                ELSE Null)

\* VersionService.getCurrentVersion
getCurrentVersion(filePath, projectName) ==
    LET current(configVersion) ==
            IF configVersion # Null THEN configVersion
            ELSE IF exactTag # "" THEN exactTag
            ELSE IF ~inRepo THEN Failure
            ELSE shortHash(headCommit)
    IN  current(IF filePath # Undefined THEN getProjectVersion(filePath, projectName)
                ELSE Null)

\* variant: the nearest tag is named even when it is the version
getVersionInfo_NoCompare(filePath, projectName) ==
    LET latestTag == getLatestTag
        currentBranch == getCurrentBranch
        named(projectConfig) ==
            IF projectConfig.found /\ projectConfig.projectName # ""
                THEN " (" \o projectConfig.projectName \o ")"
            ELSE " (config file)"
        source(configFile, currentVersion, isFromConfig) ==
            IF isFromConfig /\ filePath # Undefined
                THEN IF ~configFile.found THEN ""
                     ELSE named(getProjectConfig(projectName))
            ELSE IF latestTag # Null
                THEN " (based on " \o latestTag \o ")"
            ELSE ""
        branch ==
            IF currentBranch # Null /\ ~includes(currentBranch, "HEAD")
                THEN "\nBranch: " \o currentBranch
            ELSE ""
        info(configFile, currentVersion, configVersion) ==
            IF filePath # Undefined /\ projectName = Undefined /\ configFile.found
               /\ configFile.multi /\ Len(configFile.config) > 0
                THEN ""
            ELSE IF currentVersion = Failure THEN ""
            ELSE "Version: " \o currentVersion
                 \o source(configFile, currentVersion, configVersion # Null) \o branch
    IN  info(readConfig, getCurrentVersion(filePath, projectName),
             IF filePath # Undefined THEN getProjectVersion(filePath, projectName)
             ELSE Null)

\* variant: the branch line is added whatever git prints for HEAD
getVersionInfo_AnyBranch(filePath, projectName) ==
    LET latestTag == getLatestTag
        currentBranch == getCurrentBranch
        named(projectConfig) ==
            IF projectConfig.found /\ projectConfig.projectName # ""
                THEN " (" \o projectConfig.projectName \o ")"
            ELSE " (config file)"
        source(configFile, currentVersion, isFromConfig) ==
            IF isFromConfig /\ filePath # Undefined
                THEN IF ~configFile.found THEN ""
                     ELSE named(getProjectConfig(projectName))
            ELSE IF latestTag # Null /\ currentVersion # latestTag
                THEN " (based on " \o latestTag \o ")"
            ELSE ""
        branch ==
            IF currentBranch # Null
                THEN "\nBranch: " \o currentBranch
            ELSE ""
        info(configFile, currentVersion, configVersion) ==
            IF filePath # Undefined /\ projectName = Undefined /\ configFile.found
               /\ configFile.multi /\ Len(configFile.config) > 0
                THEN ""
            ELSE IF currentVersion = Failure THEN ""
            ELSE "Version: " \o currentVersion
                 \o source(configFile, currentVersion, configVersion # Null) \o branch
    IN  info(readConfig, getCurrentVersion(filePath, projectName),
             IF filePath # Undefined THEN getProjectVersion(filePath, projectName)
             ELSE Null)

\* VersionService.getVersionInfo.  The labels of the source are Chinese
\* words for "version", "branch", "based on" and "config file"; they are
\* written in English here.
getVersionInfo(filePath, projectName) ==
    LET latestTag == getLatestTag
        currentBranch == getCurrentBranch
        named(projectConfig) ==
            IF projectConfig.found /\ projectConfig.projectName # ""
                THEN " (" \o projectConfig.projectName \o ")"
            ELSE " (config file)"
        source(configFile, currentVersion, isFromConfig) ==
            IF isFromConfig /\ filePath # Undefined
                THEN IF ~configFile.found THEN ""
                     ELSE named(getProjectConfig(projectName))
            ELSE IF latestTag # Null /\ currentVersion # latestTag
                THEN " (based on " \o latestTag \o ")"
            ELSE ""
        branch ==
            IF currentBranch # Null /\ ~includes(currentBranch, "HEAD")
                THEN "\nBranch: " \o currentBranch
            ELSE ""
        info(configFile, currentVersion, configVersion) ==
            IF filePath # Undefined /\ projectName = Undefined /\ configFile.found
               /\ configFile.multi /\ Len(configFile.config) > 0
                THEN ""
            ELSE IF currentVersion = Failure THEN ""
            ELSE "Version: " \o currentVersion
                 \o source(configFile, currentVersion, configVersion # Null) \o branch
    IN  info(readConfig, getCurrentVersion(filePath, projectName),
             IF filePath # Undefined THEN getProjectVersion(filePath, projectName)
             ELSE Null)

GetCurrentVersion ==
    /\ result.fn = "none"
    /\ result' = Returned("getCurrentVersion",
                          getCurrentVersion(workspace.currentFilePath,
                                            workspace.currentProjectName))
    /\ UNCHANGED <<session, message, workspace, inRepo, settings, branches, head, parents, tags,
                   op, log>>

GetVersionInfo ==
    /\ result.fn = "none"
    /\ result' = Returned("getVersionInfo",
                          getVersionInfo(workspace.currentFilePath,
                                         workspace.currentProjectName))
    /\ UNCHANGED <<session, message, workspace, inRepo, settings, branches, head, parents, tags,
                   op, log>>

----------------------------------------------------------------------------
(* messageCombine: the template renderer *)

\* times a message is rendered in one behaviour
MaxRenders == 2

NoMessage ==
    [templateName |-> "", templateContent |-> "", icon |-> "", type |-> "", scope |-> "",
     subject |-> "", body |-> "", footer |-> ""]

\* no commit session is under way and the commit input box is empty
NoSession ==
    [n |-> 0, pc |-> "idle", key |-> "", edited |-> {}, template |-> "",
     inputBox |-> "", writes |-> 0, id |-> 0, author |-> 0, waiting |-> << >>]

DefaultTemplate ==
    "<icon><space><type>(<scope>):<space><subject><enter><body><enter><footer>"

\* the names of the templates: the default one, and those of the settings
templateName(templateContent) ==
    IF templateContent = DefaultTemplate THEN "Angular" ELSE "Custom"

Templates ==
    { DefaultTemplate,
      "<type>: <subject> (<type>)",
      "<ty<scope>pe><subject>",
      "<enter><subject><space>" }

Icons == {"", ":bug:"}
Types == {"", "fix"}
Scopes == {"", "core"}
Subjects == {"", "add login", "<type>", "costs $$5 $&"}
Bodies == {"", "line one\nline two"}
Footers == {"", "Closes #1"}

Messages ==
    { [templateName |-> templateName(fields.templateContent),
       templateContent |-> fields.templateContent, icon |-> fields.icon,
       type |-> fields.type, scope |-> fields.scope, subject |-> fields.subject,
       body |-> fields.body, footer |-> fields.footer] :
        fields \in [templateContent : Templates, icon : Icons, type : Types,
                    scope : Scopes, subject : Subjects, body : Bodies,
                    footer : Footers] }

\* the replacement patterns of String.prototype.replace: $$ stands for a
\* dollar sign and $& for the matched text.  (The patterns for the text
\* before and after the match do not occur in the values used here; there
\* are no capture groups, so $1 and the like are literal.)
RECURSIVE GetSubstitution(_, _)
GetSubstitution(matched, replacement) ==
    IF replacement = "" THEN ""
    ELSE IF Len(replacement) >= 2 /\ SubSeq(replacement, 1, 2) = "$$"
        THEN "$" \o GetSubstitution(matched, SubSeq(replacement, 3, Len(replacement)))
    ELSE IF Len(replacement) >= 2 /\ SubSeq(replacement, 1, 2) = "$&"
        THEN matched \o GetSubstitution(matched, SubSeq(replacement, 3, Len(replacement)))
    ELSE SubSeq(replacement, 1, 1)
         \o GetSubstitution(matched, SubSeq(replacement, 2, Len(replacement)))

\* the matches of a /token/g are found left to right in the string as it is;
\* what is put in their place is not searched again
RECURSIVE replaceFrom(_, _, _, _)
replaceFrom(str, position, token, replacement) ==
    LET matches == {i \in position..(Len(str) - Len(token) + 1) :
                       SubSeq(str, i, i + Len(token) - 1) = token}
    IN  IF matches = {} THEN SubSeq(str, position, Len(str))
        ELSE SubSeq(str, position, Min(matches) - 1)
             \o GetSubstitution(token, replacement)
             \o replaceFrom(str, Min(matches) + Len(token), token, replacement)

\* str.replace(/token/g, replacement)
replace(str, token, replacement) == replaceFrom(str, 1, token, replacement)

\* the eight replacements of messageCombine, in the order of the code
substitute(config) ==
    LET icon == IF workspace.isShowEmoji
                    THEN replace(config.templateContent, "<icon>", config.icon)
                ELSE replace(config.templateContent, "<icon>", "")
        type == IF config.type # "" THEN replace(icon, "<type>", config.type)
                ELSE replace(icon, "<type>", "")
        scope == IF config.scope # "" THEN replace(type, "<scope>", config.scope)
                 ELSE replace(type, "<scope>", "")
        subject == IF config.subject # "" THEN replace(scope, "<subject>", config.subject)
                   ELSE replace(scope, "<subject>", "")
        body == IF config.body # "" THEN replace(subject, "<body>", config.body)
                ELSE replace(subject, "<body>", "")
        footer == IF config.footer # "" THEN replace(body, "<footer>", config.footer)
                  ELSE replace(body, "<footer>", "")
        enter == replace(footer, "<enter>", "\n\n")
    IN  replace(enter, "<space>", " ")

\* variant: a version lookup without outcome is not passed over, the
\* message is lost with it
messageCombine_Lost(config) ==
    LET filePath == IF workspace.currentFilePath # Undefined
                        THEN workspace.currentFilePath
                    ELSE workspace.activeTextEditor
        combine(replaced, versionInfo) ==
            IF ~workspace.autoVersion THEN trim(replaced)
            ELSE IF inRepo /\ versionInfo # ""
                THEN trim(replaced \o "\n\n" \o versionInfo)
            ELSE ""
    IN  combine(substitute(config),
                getVersionInfo(filePath, workspace.currentProjectName))

\* messageCombine: the replacements, the version lines when autoVersion is
\* on and the git extension has a repository, then trim
messageCombine(config) ==
    LET filePath == IF workspace.currentFilePath # Undefined
                        THEN workspace.currentFilePath
                    ELSE workspace.activeTextEditor
        combine(replaced, versionInfo) ==
            IF workspace.autoVersion /\ inRepo /\ versionInfo # ""
                THEN trim(replaced \o "\n\n" \o versionInfo)
            ELSE trim(replaced)
    IN  combine(substitute(config),
                getVersionInfo(filePath, workspace.currentProjectName))

MessageCombine ==
    /\ result.fn = "none"
    /\ result' = Returned("messageCombine", messageCombine(message))
    /\ UNCHANGED <<session, message, workspace, inRepo, settings, branches, head, parents, tags,
                   op, log>>

\* the rendered text is rendered again, as a template, with the same fields
Recombine ==
    /\ result.fn = "messageCombine"
    /\ result.n < MaxRenders
    /\ message' = [message EXCEPT !.templateContent = result.value]
    /\ result' = Returned("messageCombine",
                          messageCombine([message EXCEPT !.templateContent = result.value]))
    /\ UNCHANGED <<session, workspace, inRepo, settings, branches, head, parents, tags, op, log>>

----------------------------------------------------------------------------
(* The commit session: odinsamGitCommit.showCommit and its prompts.  Every  *)
(* action is the answer to the prompt that is open and the code that runs   *)
(* until the next prompt opens.  The .gitcommit file is taken to be in the  *)
(* workspace root, which is where the session looks for it.                 *)

\* odinsamGitCommit.maxSubjectWords, here configured to 10 (50 when unset)
MaxSubjectWords == 10

\* showCommit invocations in one behaviour
MaxSessions == 1

\* the picks offered by getCommitTemplates and getCommitTypes
SessionTemplates == {DefaultTemplate}

SessionTypes == {"fix"}

\* the icon of a commit type
typeIcon(title) == IF title = "fix" THEN ":bug:" ELSE ""

\* the fields of the field menu, and what the user types into their boxes
\* (the boxes of body and footer are opened and dismissed, never filled)
DetailKeys == {"scope", "subject", "body", "footer"}

DetailInputs(key) ==
    CASE key = "scope" -> {"core"}
      [] key = "subject" -> {"add login", "add the login form"}
      [] OTHER -> {}

\* what TemplateService.createGitCommitConfig writes
SingleTemplate == SingleProject

MultiTemplate ==
    [MultiProject EXCEPT !.config = << ProjectConfig("app", "package.json", VersionRegex) >>]

ConfigPath == ".gitcommit"

\* clearMessage: every field of messageConfig and every isEdit mark
clearMessage(s) == [s EXCEPT !.edited = {}, !.author = 0]

\* variant: the project name of the earlier session is kept where no
\* project is found
checkAndSelectProject_NoReset ==
    LET configFile == readConfig IN
    IF ~workspace.configFile.exists \/ ~configFile.found
        THEN [projectName |-> workspace.currentProjectName, pc |-> "selectTemplate"]
    ELSE IF configFile.multi /\ Len(configFile.config) > 0
        THEN [projectName |-> Undefined, pc |-> "selectProject"]
    ELSE IF configFile.projectName # ""
        THEN [projectName |-> configFile.projectName, pc |-> "selectTemplate"]
    ELSE [projectName |-> workspace.currentProjectName, pc |-> "selectTemplate"]

\* checkAndSelectProject up to its prompt, then selectTemplate up to its
\* prompt: the project name it leaves and the prompt that opens
checkAndSelectProject ==
    LET configFile == readConfig IN
    IF ~workspace.configFile.exists \/ ~configFile.found
        THEN [projectName |-> Undefined, pc |-> "selectTemplate"]
    ELSE IF configFile.multi /\ Len(configFile.config) > 0
        THEN [projectName |-> Undefined, pc |-> "selectProject"]
    ELSE IF configFile.projectName # ""
        THEN [projectName |-> configFile.projectName, pc |-> "selectTemplate"]
    ELSE [projectName |-> Undefined, pc |-> "selectTemplate"]

\* the command: the file path is saved, then askAndCreateConfig asks whether
\* to create a .gitcommit when there is none
\* an invocation while a prompt of an earlier one is open does not end that
\* one: its prompt stays in waiting, still to be answered
invoked(s) ==
    [s EXCEPT !.n = @ + 1, !.id = s.n + 1, !.template = "",
              !.waiting = IF s.pc = "idle" THEN @
                          ELSE << [id |-> s.id, pc |-> s.pc, key |-> s.key,
                                   template |-> s.template] >>]

showCommitHandler ==
    /\ \E uri \in FilePaths :
         LET currentFilePath == IF workspace.activeTextEditor # Undefined
                                    THEN workspace.activeTextEditor ELSE uri
             next == checkAndSelectProject
         IN  IF workspace.configFile.exists
                 THEN /\ workspace' = [workspace EXCEPT
                                          !.currentFilePath = currentFilePath,
                                          !.currentProjectName = next.projectName]
                      /\ session' = [invoked(session) EXCEPT !.pc = next.pc]
             ELSE /\ workspace' = [workspace EXCEPT !.currentFilePath = currentFilePath]
                  /\ session' = [invoked(session) EXCEPT !.pc = "askCreate"]
    /\ UNCHANGED <<message, result, inRepo, settings, branches, head, parents, tags,
                   op, log>>

showCommit ==
    /\ session.pc = "idle"
    /\ session.n < MaxSessions
    /\ showCommitHandler

\* the command is invoked again while a prompt of the session is open
showCommitAgain ==
    /\ session.pc # "idle"
    /\ session.waiting = << >>
    /\ showCommitHandler

\* of two sessions with an open prompt, the other one's prompt is the next
\* to be answered: pc is the prompt whose answer comes next
YieldPrompt ==
    /\ session.waiting # << >>
    /\ session.waiting[1].pc # "idle"
    /\ session' = [session EXCEPT
                      !.id = session.waiting[1].id,
                      !.pc = session.waiting[1].pc,
                      !.key = session.waiting[1].key,
                      !.template = session.waiting[1].template,
                      !.waiting = << [id |-> session.id, pc |-> session.pc,
                                      key |-> session.key,
                                      template |-> session.template] >>]
    /\ UNCHANGED <<message, workspace, result, inRepo, settings, branches, head, parents,
                   tags, op, log>>

\* the answer to "create a config template?": skip, or a template, which
\* createGitCommitConfig writes unless the write fails
askAndCreateConfig ==
    /\ session.pc = "askCreate"
    /\ \E createConfig \in {"single", "multi", "skip", Undefined}, saved \in BOOLEAN :
         IF createConfig \in {"single", "multi"} /\ saved
             THEN /\ workspace' = [workspace EXCEPT
                                      !.configFile = IF createConfig = "single"
                                                         THEN SingleTemplate
                                                     ELSE MultiTemplate]
                  /\ session' = [session EXCEPT !.pc = "askOpen"]
         ELSE /\ workspace' = [workspace EXCEPT !.currentProjectName = Undefined]
              /\ session' = [session EXCEPT !.pc = "selectTemplate"]
    /\ UNCHANGED <<message, result, inRepo, settings, branches, head, parents, tags,
                   op, log>>

\* the answer to "open the new file?", then checkAndSelectProject
openConfig ==
    /\ session.pc = "askOpen"
    /\ \E openFile \in {"open", "later", Undefined} :
         LET next == checkAndSelectProject IN
         /\ workspace' = [workspace EXCEPT
                             !.activeTextEditor = IF openFile = "open" THEN ConfigPath
                                                  ELSE @,
                             !.currentProjectName = next.projectName]
         /\ session' = [session EXCEPT !.pc = next.pc]
    /\ UNCHANGED <<message, result, inRepo, settings, branches, head, parents, tags,
                   op, log>>

\* the answer to the project pick of a multi-project config
selectProject ==
    /\ session.pc = "selectProject"
    /\ \E selected \in 1..Len(readConfig.config) \cup {0} :
         LET projectName == IF selected = 0 THEN ""
                            ELSE readConfig.config[selected].projectName IN
         workspace' = [workspace EXCEPT
                          !.currentProjectName = IF projectName # "" THEN projectName
                                                 ELSE Undefined]
    /\ session' = [session EXCEPT !.pc = "selectTemplate"]
    /\ UNCHANGED <<message, result, inRepo, settings, branches, head, parents, tags,
                   op, log>>

\* the answer to the template pick
selectTemplate ==
    /\ session.pc = "selectTemplate"
    /\ \E select \in SessionTemplates \cup {Undefined} :
         IF select = Undefined
             THEN /\ message' = [message EXCEPT !.templateName = "",
                                                !.templateContent = ""]
                  /\ session' = [session EXCEPT !.pc = "idle"]
         ELSE /\ message' = [message EXCEPT !.templateName = templateName(select),
                                            !.templateContent = select]
              /\ session' = [session EXCEPT !.pc = "selectType", !.template = select]
    /\ UNCHANGED <<workspace, result, inRepo, settings, branches, head, parents, tags,
                   op, log>>

\* the answer to the commit type pick
startMessageInput ==
    /\ session.pc = "selectType"
    /\ \E select \in SessionTypes \cup {Undefined} :
         IF select = Undefined
             THEN /\ message' = [message EXCEPT !.type = "", !.icon = ""]
                  /\ session' = [session EXCEPT !.pc = "idle"]
         ELSE /\ message' = [message EXCEPT !.type = select,
                                            !.icon = typeIcon(select)]
              /\ session' = [session EXCEPT !.pc = "selectDetail"]
    /\ UNCHANGED <<workspace, result, inRepo, settings, branches, head, parents, tags,
                   op, log>>

\* the field menu answered with "back" writes the input box as well
recursiveInputMessage_BackWrites ==
    /\ session.pc = "selectDetail"
    /\ \E key \in DetailKeys \cup {"complete", "back", Undefined} :
         CASE key = Undefined ->
                /\ message' = NoMessage
                /\ session' = [clearMessage(session) EXCEPT !.pc = "idle"]
           [] key = "complete" ->
                /\ message' = NoMessage
                /\ session' = [clearMessage(session) EXCEPT
                                  !.pc = "idle",
                                  !.inputBox = messageCombine(message),
                                  !.writes = @ + 1]
           [] key = "back" ->
                /\ message' = NoMessage
                /\ session' = [clearMessage(session) EXCEPT
                                  !.pc = "selectType",
                                  !.inputBox = messageCombine(message)]
           [] OTHER ->
                /\ message' = message
                /\ session' = [session EXCEPT !.pc = "inputDetail", !.key = key]
    /\ UNCHANGED <<workspace, result, inRepo, settings, branches, head, parents, tags,
                   op, log>>

\* the answer to the field menu: a field, complete, back, or none
recursiveInputMessage ==
    /\ session.pc = "selectDetail"
    /\ \E key \in DetailKeys \cup {"complete", "back", Undefined} :
         CASE key = Undefined ->
                /\ message' = NoMessage
                /\ session' = [clearMessage(session) EXCEPT !.pc = "idle"]
           [] key = "complete" ->
                /\ message' = NoMessage
                /\ session' = [clearMessage(session) EXCEPT
                                  !.pc = "idle",
                                  !.inputBox = messageCombine(message),
                                  !.writes = @ + 1]
           [] key = "back" ->
                /\ message' = NoMessage
                /\ session' = [clearMessage(session) EXCEPT !.pc = "selectType"]
           [] OTHER ->
                /\ message' = message
                /\ session' = [session EXCEPT !.pc = "inputDetail", !.key = key]
    /\ UNCHANGED <<workspace, result, inRepo, settings, branches, head, parents, tags,
                   op, log>>

\* the answer to the input box of a field: the value is stored, and only
\* then is the length of a subject tested
inputMessageDetail ==
    /\ session.pc = "inputDetail"
    /\ \E inputValue \in DetailInputs(session.key) \cup {Undefined} :
         IF inputValue = Undefined
             THEN /\ message' = message
                  /\ session' = [session EXCEPT !.pc = "selectDetail"]
         ELSE /\ message' = [message EXCEPT ![session.key] = inputValue]
              /\ session' =
                    [session EXCEPT
                        !.edited = @ \cup {session.key},
                        !.author = session.id,
                        !.pc = IF session.key = "subject"
                                  /\ Len(inputValue) > MaxSubjectWords
                                   THEN "inputDetail" ELSE "selectDetail"]
    /\ UNCHANGED <<workspace, result, inRepo, settings, branches, head, parents, tags,
                   op, log>>

\* the user brings another file, or none, to the front
SwitchEditor ==
    /\ \E active \in FilePaths \ {workspace.activeTextEditor} :
         workspace' = [workspace EXCEPT !.activeTextEditor = active]
    /\ UNCHANGED <<session, message, result, inRepo, settings, branches, head, parents,
                   tags, op, log>>

\* the repository the git extension had at activation is closed
CloseRepository ==
    /\ inRepo
    /\ inRepo' = FALSE
    /\ UNCHANGED <<session, message, workspace, result, settings, branches, head,
                   parents, tags, op, log>>

----------------------------------------------------------------------------
(* The developer working in the repository between two operations *)

UserCommit ==
    /\ op.status # "running"
    /\ inRepo
    /\ Len(parents) < MaxCommits
    /\ parents' = Append(parents, << headCommit >>)
    /\ branches' = [branches EXCEPT ![head] = Len(parents) + 1]
    /\ UNCHANGED <<session, message, workspace, result, inRepo, settings, head, tags, op, log>>

----------------------------------------------------------------------------
(* The specification *)

NoTags == [t \in {} |-> [commit |-> 1, msg |-> ""]]

\* no service call has been made yet
NoCall ==
    /\ op = [n |-> 0, kind |-> "none", status |-> "idle", err |-> "", prog |-> << >>,
             pc |-> 1, arg |-> "", keep |-> FALSE, branch |-> "", tag |-> "",
             config |-> NoConfig, tagMessage |-> Undefined,
             dismissed |-> FALSE, pre |-> Snapshot, waiting |-> << >>]
    /\ log = << >>

\* The extension starts outside a repository, in a repository that was never
\* initialized (one branch, one commit), or in one that an earlier session
\* initialized: the settings persist in .git/config, and init has left the
\* develop branch checked out.

Init ==
    /\ inRepo \in BOOLEAN
    /\ \/ /\ settings = [k \in Keys |-> Unset]
          /\ branches = ("master" :> 1)
          /\ head = "master"
       \/ /\ inRepo
          /\ \E config \in InitConfigs :
               /\ settings = written(finalConfig(config))
               /\ branches = ("master" :> 1) @@ (finalConfig(config).developBranch :> 1)
               /\ head = finalConfig(config).developBranch
    /\ parents = << << >> >>
    /\ tags = NoTags
    /\ NoCall
    /\ message = NoMessage
    /\ workspace = NoWorkspace
    /\ result = NoResult
    /\ session = NoSession

Next ==
    \/ ApiInit \/ ApiStartFeature \/ ApiFinishFeature
    \/ ApiStartRelease \/ ApiFinishRelease
    \/ ApiStartHotfix \/ ApiFinishHotfix
    \/ gitFlowInit \/ gitFlowFeatureStart \/ gitFlowFeatureFinish
    \/ gitFlowReleaseStart \/ gitFlowReleaseFinish
    \/ gitFlowHotfixStart \/ gitFlowHotfixFinish
    \/ DoConfig \/ DoEnsureDevelop \/ DoCheckout \/ DoPull \/ DoCheckoutNew
    \/ DoMerge \/ DoTag \/ DoBranchDelete
    \/ UserCommit

Spec == Init /\ [][Next]_vars

----------------------------------------------------------------------------
(* The branch classifier on its own: any branch name, any prefixes *)

ClassifyBranches ==
    {"feature/login", "main", "release/2.0", "hotfix/1.0.1", "support/lts", "x/1"}

\* what each of the four prefix settings may hold
PrefixChoices == {Unset, "x/", "hotfix/"}

InitClassify ==
    /\ inRepo \in BOOLEAN
    /\ head \in ClassifyBranches
    /\ \E prefixes \in [{KeyFeature, KeyRelease, KeyHotfix, KeySupport} -> PrefixChoices] :
         settings = [k \in Keys |->
                        IF k \in DOMAIN prefixes THEN prefixes[k]
                        ELSE written(DEFAULT_CONFIG)[k]]
    /\ branches = (head :> 1)
    /\ parents = << << >> >>
    /\ tags = NoTags
    /\ NoCall
    /\ message = NoMessage
    /\ workspace = NoWorkspace
    /\ result = NoResult
    /\ session = NoSession

NextClassify == GetCurrentBranchType

SpecClassify == InitClassify /\ [][NextClassify]_vars

----------------------------------------------------------------------------
(* The renderer on its own: any template, any fields *)

InitRender ==
    /\ inRepo = TRUE
    /\ settings = [k \in Keys |-> Unset]
    /\ branches = ("master" :> 1)
    /\ head = "master"
    /\ parents = << << >> >>
    /\ tags = NoTags
    /\ NoCall
    /\ message \in Messages
    /\ \E isShowEmoji \in BOOLEAN, autoVersion \in BOOLEAN :
         workspace = [NoWorkspace EXCEPT !.isShowEmoji = isShowEmoji,
                                         !.autoVersion = autoVersion]
    /\ result = NoResult
    /\ session = NoSession

NextRender == MessageCombine \/ Recombine

SpecRender == InitRender /\ [][NextRender]_vars

----------------------------------------------------------------------------
(* The version lookup on its own: any .gitcommit, version files and tags *)

\* two commits on master; no tag, a tag on the first commit, or a tag on HEAD
TagChoices ==
    { NoTags,
      ("v0.9.0" :> [commit |-> 1, msg |-> "Release 0.9.0"]),
      ("v1.0.0" :> [commit |-> 2, msg |-> "Release 1.0.0"]) }

InitVersion ==
    /\ inRepo \in BOOLEAN
    /\ settings = [k \in Keys |-> Unset]
    /\ branches = ("master" :> 2)
    /\ head = "master"
    /\ parents = << << >>, << 1 >> >>
    /\ tags \in TagChoices
    /\ NoCall
    /\ message = NoMessage
    /\ \E filePath \in FilePaths, projectName \in ProjectNames,
          configFile \in ConfigFiles, files \in VersionFiles :
         workspace = [NoWorkspace EXCEPT !.currentFilePath = filePath,
                                         !.currentProjectName = projectName,
                                         !.configFile = configFile,
                                         !.files = files]
    /\ result = NoResult
    /\ session = NoSession

NextVersion == GetCurrentVersion \/ GetVersionInfo

SpecVersion == InitVersion /\ [][NextVersion]_vars

----------------------------------------------------------------------------
(* The commit session on its own: the extension has been activated in a    *)
(* repository; the .gitcommit file and the settings are any of a few       *)

SessionConfigFiles == {MissingFile, MultiProject}

SessionFiles ==
    ("package.json" :> "version: 1.2.3 \n") @@ ("api/package.json" :> "version: 2.0.0")
    @@ ("web/package.json" :> "name: web\nversion: 3.1.0")

InitSession ==
    /\ inRepo = TRUE
    /\ settings = [k \in Keys |-> Unset]
    /\ branches = ("master" :> 1)
    /\ head = "master"
    /\ parents = << << >> >>
    /\ tags = NoTags
    /\ NoCall
    /\ message = NoMessage
    /\ \E autoVersion \in BOOLEAN, active \in FilePaths, configFile \in SessionConfigFiles :
         workspace = [NoWorkspace EXCEPT !.autoVersion = autoVersion,
                                         !.activeTextEditor = active,
                                         !.configFile = configFile,
                                         !.files = SessionFiles]
    /\ result = NoResult
    /\ session = NoSession

NextSession ==
    \/ showCommit \/ askAndCreateConfig \/ openConfig \/ selectProject
    \/ selectTemplate \/ startMessageInput \/ recursiveInputMessage
    \/ inputMessageDetail
    \/ SwitchEditor \/ CloseRepository

SpecSession == InitSession /\ [][NextSession]_vars

----------------------------------------------------------------------------
(* Finishing on its own: the repository was initialized by an earlier      *)
(* session, and a feature, release or hotfix branch was started and has a  *)
(* commit of its own; it is checked out, or the development branch is      *)

RoleBranches(cfg) ==
    {cfg.featurePrefix \o "login", cfg.releasePrefix \o "1.0.0", cfg.hotfixPrefix \o "1.0.0"}

InitFinish ==
    /\ inRepo = TRUE
    /\ \E config \in InitConfigs :
         LET cfg == finalConfig(config) IN
         /\ settings = written(cfg)
         /\ \E branchName \in RoleBranches(cfg) :
              /\ branches = ("master" :> 1) @@ (cfg.developBranch :> 1) @@ (branchName :> 2)
              /\ head \in {branchName, cfg.developBranch}
    /\ parents = << << >>, << 1 >> >>
    /\ tags = NoTags
    /\ NoCall
    /\ message = NoMessage
    /\ workspace = NoWorkspace
    /\ result = NoResult
    /\ session = NoSession

NextFinish ==
    \/ gitFlowShow
    \/ ApiFinishFeature \/ ApiFinishRelease \/ ApiFinishHotfix
    \/ DoCheckout \/ DoPull \/ DoMerge \/ DoTag \/ DoBranchDelete

SpecFinish == InitFinish /\ [][NextFinish]_vars

\* every git flow operation in a repository that already has a role branch
SpecRoles == InitFinish /\ [][Next]_vars

----------------------------------------------------------------------------
(* The version line on its own: any branch checked out, or none *)

\* a multi-project file whose first project has no projectName member
MultiNameless ==
    [MultiProject EXCEPT
        !.config = << ProjectConfig("", "package.json", VersionRegex),
                      ProjectConfig("web", "web/package.json", VersionRegex) >>]

InfoConfigFiles == {MissingFile, SingleProject, MultiProject, MultiNameless}

\* what git rev-parse --abbrev-ref HEAD prints: the name of the branch that
\* is checked out, "HEAD" when a commit is checked out and no branch
InfoHeads == {"master", "fix/OVERHEAD", "HEAD"}

InitInfo ==
    /\ inRepo \in BOOLEAN
    /\ settings = [k \in Keys |-> Unset]
    /\ head \in InfoHeads
    /\ branches = ("master" :> 2) @@ (head :> 2)
    /\ parents = << << >>, << 1 >> >>
    /\ tags \in TagChoices
    /\ NoCall
    /\ message = NoMessage
    /\ \E filePath \in FilePaths, projectName \in ProjectNames,
          configFile \in InfoConfigFiles, files \in VersionFiles :
         workspace = [NoWorkspace EXCEPT !.currentFilePath = filePath,
                                         !.currentProjectName = projectName,
                                         !.configFile = configFile,
                                         !.files = files]
    /\ result = NoResult
    /\ session = NoSession

SpecInfo == InitInfo /\ [][NextVersion]_vars

----------------------------------------------------------------------------
(* A later commit session: an earlier one has left its file path and its   *)
(* project name behind, and the .gitcommit file has been edited since      *)

\* the file in focus and the project of the earlier session
StalePath == "old/readme.md"

StaleProject == "legacy"

LaterConfigFiles == {MissingFile, InvalidJson, MultiProject}

InitLater ==
    /\ inRepo = TRUE
    /\ settings = [k \in Keys |-> Unset]
    /\ branches = ("master" :> 1)
    /\ head = "master"
    /\ parents = << << >> >>
    /\ tags = NoTags
    /\ NoCall
    /\ message = NoMessage
    /\ \E autoVersion \in BOOLEAN, active \in FilePaths, configFile \in LaterConfigFiles :
         workspace = [NoWorkspace EXCEPT !.autoVersion = autoVersion,
                                         !.activeTextEditor = active,
                                         !.currentFilePath = StalePath,
                                         !.currentProjectName = StaleProject,
                                         !.configFile = configFile,
                                         !.files = SessionFiles]
    /\ result = NoResult
    /\ session = NoSession

SpecLater == InitLater /\ [][NextSession]_vars

----------------------------------------------------------------------------
(* Overlap: a second finish call while one is in flight, a second commit   *)
(* session while a prompt of the first is open.  A behaviour has one call  *)
(* and a second one during it, or one session and a second one during it:  *)
(* the rest of the budgets is used up from the start.                       *)

InitOverlap ==
    /\ inRepo = TRUE
    /\ settings = written(DEFAULT_CONFIG)
    /\ branches = ("master" :> 1) @@ ("develop" :> 1) @@ ("feature/login" :> 2)
                  @@ ("release/1.0.0" :> 3)
    /\ head = "develop"
    /\ parents = << << >>, << 1 >>, << 1 >> >>
    /\ tags = NoTags
    /\ log = << >>
    /\ message = NoMessage
    /\ workspace = [NoWorkspace EXCEPT !.activeTextEditor = "src/index.ts",
                                       !.files = SessionFiles]
    /\ result = NoResult
    /\ \E calls \in BOOLEAN :
         /\ op = [n |-> IF calls THEN MaxOps - 1 ELSE MaxOps,
                  kind |-> "none", status |-> "idle", err |-> "", prog |-> << >>,
                  pc |-> 1, arg |-> "", keep |-> FALSE, branch |-> "", tag |-> "",
                  config |-> NoConfig, tagMessage |-> Undefined,
                  dismissed |-> FALSE, pre |-> Snapshot, waiting |-> << >>]
         /\ session = [NoSession EXCEPT !.n = IF calls THEN MaxSessions ELSE 0]

NextOverlap ==
    \/ ApiFinishFeature \/ ApiFinishRelease
    \/ SecondFinishFeature \/ SecondFinishRelease \/ Yield
    \/ DoCheckout \/ DoPull \/ DoMerge \/ DoTag \/ DoBranchDelete
    \/ showCommit \/ showCommitAgain \/ YieldPrompt
    \/ askAndCreateConfig \/ openConfig \/ selectProject
    \/ selectTemplate \/ startMessageInput \/ recursiveInputMessage
    \/ inputMessageDetail

SpecOverlap == InitOverlap /\ [][NextOverlap]_vars

----------------------------------------------------------------------------
(* The queries on their own: outside a repository, in one that was never   *)
(* initialized, and in initialized ones, with any branch checked out       *)

QueryBranches ==
    {"master", "develop", "feature/login", "release/1.0.0", "rel/1.0.0", "hotfix/1.0.0",
     "feature/"}

InitQuery ==
    /\ inRepo \in BOOLEAN
    /\ \/ settings = [k \in Keys |-> Unset]
       \/ \E config \in InitConfigs : settings = written(finalConfig(config))
    /\ branches = [b \in QueryBranches |-> 1]
    /\ head \in QueryBranches
    /\ parents = << << >> >>
    /\ tags \in {NoTags, ("v0.9.0" :> [commit |-> 1, msg |-> "Release 0.9.0"])}
    /\ NoCall
    /\ message = NoMessage
    /\ workspace = NoWorkspace
    /\ result = NoResult
    /\ session = NoSession

NextQuery ==
    \/ IsInitialized \/ GetBranchType
    \/ GetFeatureBranches \/ GetReleaseBranches \/ GetHotfixBranches

SpecQuery == InitQuery /\ [][NextQuery]_vars





----------------------------------------------------------------------------
(* Properties *)

Last(s) == s[Len(s)]

IsPrefix(s, t) == Len(s) <= Len(t) /\ s = SubSeq(t, 1, Len(s))

\* the commands issued so far, without their outcome
Issued == [i \in 1..Len(log) |-> << log[i].c, log[i].a >>]

StartKinds == {"startFeature", "startRelease", "startHotfix"}
FinishKinds == {"finishFeature", "finishRelease", "finishHotfix"}
TaggingKinds == {"finishRelease", "finishHotfix"}

\* the settings the operation in flight has read
stable == op.pre.settings[KeyMaster]
development == op.pre.settings[KeyDevelop]

\* every command but the last has succeeded, or was a pull
EarlierSucceeded == \A i \in 1..(Len(log) - 1) : log[i].ok \/ log[i].c = "pull"

C1_Expected ==
    << << "checkout", stable >>, << "pull", stable >>, << "merge", op.branch >>,
       << "tag", op.tag >>,
       << "checkout", development >>, << "pull", development >>, << "merge", op.branch >> >>
    \o (IF op.keep THEN << >> ELSE << << "branch-d", op.branch >> >>)

\* C1: finishRelease and finishHotfix issue checkout stable, pull stable,
\* merge --no-ff branch, tag, checkout development, pull development,
\* merge --no-ff branch and (unless the branch is kept) branch -d, in exactly
\* this order, each one after the previous one has completed: what has been
\* issued is at every moment a prefix of that sequence, a command is issued
\* only after the earlier ones succeeded, and a call that returns has issued
\* the whole sequence.
C1_FinishOrder ==
    op.kind \in TaggingKinds =>
        /\ IsPrefix(Issued, C1_Expected)
        /\ EarlierSucceeded
        /\ op.status = "ok" => Issued = C1_Expected

C1_Witness ==
    /\ op.kind = "finishHotfix"
    /\ op.status = "ok"
    /\ ~op.keep
    /\ Len(log) = 8
    /\ \A i \in 1..Len(log) : log[i].ok


C2_Case ==
    /\ op.kind = "finishRelease"
    /\ op.arg = "1.0.0"
    /\ ~op.keep
    /\ op.status = "ok"
    /\ op.pre.settings = written(DEFAULT_CONFIG)
    /\ "release/1.0.0" \in DOMAIN op.pre.branches

C2_Tip == op.pre.branches["release/1.0.0"]

C2_Result ==
    /\ Contains(branches["master"], C2_Tip)
    /\ "1.0.0" \in DOMAIN tags
    /\ tags["1.0.0"].commit = branches["master"]
    /\ isMergeCommit(tags["1.0.0"].commit)
    /\ parents[tags["1.0.0"].commit][2] = C2_Tip
    /\ Contains(branches["develop"], C2_Tip)
    /\ "release/1.0.0" \notin DOMAIN branches

\* C2 as stated: finishRelease("1.0.0", keepBranch = false) on a repository
\* (default settings) that has release/1.0.0 ends with master containing the
\* release history through a merge commit, the tag 1.0.0 on that merge
\* commit, develop containing the release history and release/1.0.0 gone.
C2_AsStated == C2_Case => C2_Result

\* C2, amended: the same, for a release/1.0.0 whose tip the stable branch does
\* not contain yet.  (A branch that is already contained in master is merged
\* as "Already up to date": no merge commit, and the tag lands on the commit
\* master had.)
C2_FinishRelease ==
    (C2_Case /\ ~Contains(op.pre.branches["master"], C2_Tip)) => C2_Result

C2_Witness ==
    /\ C2_Case
    /\ ~Contains(op.pre.branches["master"], C2_Tip)
    /\ C2_Result


\* a command has just been settled
Settled == Len(log') = Len(log) + 1

C4_PullIgnored ==
    [][ op'.kind \in StartKinds \cup FinishKinds =>
          /\ (Settled /\ Last(log').c = "pull" /\ ~Last(log').ok)
                => (op'.status = "running" /\ op'.pc = op.pc + 1 /\ UNCHANGED repo)
          /\ (op'.prog # << >> /\ Len(log') = Len(op'.prog) /\ \A i \in 1..Len(log') : log'[i].ok \/ log'[i].c = "pull")
                => op'.status = "ok" ]_vars

\* a finishRelease that returned although both of its pulls failed
C4_Witness ==
    /\ op.kind = "finishRelease"
    /\ op.status = "ok"
    /\ ~log[2].ok
    /\ ~log[6].ok
    /\ log[2].c = "pull"
    /\ log[6].c = "pull"

\* C5 as stated: a command in which a prompt was dismissed issues no
\* checkout, merge, tag, branch or settings command.
C5_AsStated == op.dismissed => log = << >>

\* a merge of a finish operation has just succeeded
Merged == Settled /\ op.kind \in FinishKinds /\ Last(log').c = "merge" /\ Last(log').ok

\* the branch a finish operation merges into: stable for the first merge of a
\* release or hotfix, development otherwise
C6_Target ==
    IF op.kind \in TaggingKinds /\ Len(log) = 2 THEN stable ELSE development

\* C6 as stated: every merge of a finish operation puts a new merge commit on
\* the target branch, whatever the relation of the two branches.
C6_AsStated ==
    [][ Merged =>
          /\ Len(parents') = Len(parents) + 1
          /\ Len(parents'[Len(parents')]) = 2
          /\ branches'[C6_Target] = Len(parents') ]_vars

\* C6, amended: a merge of a finish operation never fast-forwards: when the
\* workflow branch has a commit the target does not contain it puts a new
\* merge commit (parents: the target's commit, the branch's commit) on the
\* target, also when the target could be fast-forwarded; when the target
\* already contains the branch it succeeds without creating a commit.
C6_NoFastForward ==
    [][ Merged =>
          /\ head = C6_Target
          /\ IF Contains(branches[C6_Target], branches[op.branch])
                THEN UNCHANGED <<branches, parents>>
                ELSE /\ parents' = Append(parents, << branches[C6_Target], branches[op.branch] >>)
                     /\ branches' = [branches EXCEPT ![C6_Target] = Len(parents')] ]_vars

\* a finished feature whose merge commit joins a target that could have been
\* fast-forwarded
C6_Witness ==
    /\ op.kind = "finishFeature"
    /\ op.status = "ok"
    /\ isMergeCommit(branches[development])
    /\ parents[branches[development]][2] = op.pre.branches[op.branch]
    /\ Contains(op.pre.branches[op.branch], parents[branches[development]][1])

C7_Expected ==
    << << "checkout", development >>, << "pull", development >>,
       << "merge", op.pre.settings[KeyFeature] \o op.arg >> >>
    \o (IF op.keep THEN << >>
        ELSE << << "branch-d", op.pre.settings[KeyFeature] \o op.arg >> >>)

C7_Order ==
    /\ IsPrefix(Issued, C7_Expected)
    /\ EarlierSucceeded
    /\ op.status = "ok" => Issued = C7_Expected

\* C7: finishFeature issues checkout development, pull, merge --no-ff
\* {featurePrefix}{name} and the optional branch -d, in this order; while it
\* runs it never switches to the stable branch, never moves or deletes it and
\* never creates a tag.
C7_FinishFeature ==
    [][ /\ op'.kind = "finishFeature" => C7_Order'
        /\ (op.kind = "finishFeature" /\ op.status = "running") =>
              /\ tags' = tags
              /\ head' = stable => head = stable
              /\ stable \in DOMAIN branches =>
                    (stable \in DOMAIN branches' /\ branches'[stable] = branches[stable]) ]_vars

C7_Witness ==
    /\ op.kind = "finishFeature"
    /\ op.status = "ok"
    /\ ~op.keep
    /\ Len(log) = 4
    /\ stable \in DOMAIN branches

\* C8: after a finish operation that returned successfully the workflow
\* branch exists when keepBranch was true and does not exist when it was
\* false, and every other branch that existed before still exists.
C8_KeepOrDelete ==
    (op.kind \in FinishKinds /\ op.status = "ok") =>
        /\ op.branch \in DOMAIN op.pre.branches
        /\ op.keep => op.branch \in DOMAIN branches
        /\ ~op.keep => op.branch \notin DOMAIN branches
        /\ DOMAIN op.pre.branches \ {op.branch} \subseteq DOMAIN branches

\* a kept branch next to a finished operation
C8_Witness ==
    /\ op.kind \in FinishKinds
    /\ op.status = "ok"
    /\ op.keep
    /\ op.branch \in DOMAIN branches
    /\ Cardinality(DOMAIN branches) >= 3

C9_Source == IF op.kind = "startHotfix" THEN stable ELSE development

C9_Prefix ==
    IF op.kind = "startFeature" THEN op.pre.settings[KeyFeature]
    ELSE IF op.kind = "startRelease" THEN op.pre.settings[KeyRelease]
    ELSE op.pre.settings[KeyHotfix]

\* C9: when a start operation returns successfully, the branch
\* {configured prefix}{name|version} is new, points at the commit of the
\* source branch (development for a feature or release, stable for a hotfix)
\* as it is after the pull, and is checked out.
C9_StartBranch ==
    [][ (op.kind \in StartKinds /\ op.status = "running" /\ op'.status = "ok") =>
          /\ C9_Prefix \o op.arg \notin DOMAIN op.pre.branches
          /\ DOMAIN branches' = DOMAIN op.pre.branches \cup {C9_Prefix \o op.arg}
          /\ branches'[C9_Prefix \o op.arg] = branches'[C9_Source]
          /\ head' = C9_Prefix \o op.arg ]_vars

\* a hotfix started from a stable branch that differs from development
C9_Witness ==
    /\ op.kind = "startHotfix"
    /\ op.status = "ok"
    /\ head = op.branch
    /\ branches[op.branch] = branches[stable]
    /\ branches[stable] # branches[development]

\* isInitialized() as it answered when the operation was called
C10_WasInitialized ==
    inRepo /\ op.pre.settings[KeyMaster] # Unset /\ op.pre.settings[KeyMaster] # ""

\* C10 as stated: an operation invoked outside a repository, and a start or
\* finish operation invoked while isInitialized() is false, reports the
\* failure without having issued any command.
C10_AsStated ==
    /\ (~inRepo /\ op.kind # "none" /\ op.status # "cancelled")
          => (op.status \in {"error", "warned"} /\ log = << >>)
    /\ (op.kind \in StartKinds \cup FinishKinds /\ ~C10_WasInitialized /\ op.status # "cancelled")
          => (op.status \in {"error", "warned"} /\ log = << >>)

\* a start operation whose branch {prefix}{name|version} existed at the call
C11_Exists ==
    /\ op.kind \in StartKinds
    /\ op.prog # << >>
    /\ op.branch \in DOMAIN op.pre.branches

\* C11: a start operation whose branch already exists never returns
\* successfully: its checkout -b is rejected and ends the call with an error;
\* while it runs no branch is created and the existing branch keeps its commit.
C11_BranchExists ==
    [][ (C11_Exists /\ op.status = "running") =>
          /\ op'.status \in {"running", "error"}
          /\ (Settled /\ Last(log').c = "checkout-b") =>
                (~Last(log').ok /\ op'.status = "error")
          /\ DOMAIN branches' = DOMAIN branches
          /\ branches'[op.branch] = op.pre.branches[op.branch] ]_vars

\* a startFeature that reached its checkout -b and was refused there
C11_Witness ==
    /\ C11_Exists
    /\ op.kind = "startFeature"
    /\ op.status = "error"
    /\ Len(log) = 3
    /\ log[1].ok
    /\ Last(log).c = "checkout-b"
    /\ branches[op.branch] = op.pre.branches[op.branch]

\* C12 as stated: after init has returned successfully a local branch named
\* exactly as the configured development branch exists, whatever other
\* branches the repository has.
C12_AsStated ==
    (op.kind = "init" /\ op.status = "ok") =>
        (IF op.config.developBranch = Undefined THEN DEFAULT_CONFIG.developBranch
         ELSE op.config.developBranch) \in DOMAIN branches

\* the value init is to store under each setting: the given one, else the default
C13_Given(field, default) == IF op.config[field] = Undefined THEN default ELSE op.config[field]

C13_Expected ==
    (KeyMaster :> C13_Given("masterBranch", "master")) @@
    (KeyDevelop :> C13_Given("developBranch", "develop")) @@
    (KeyFeature :> C13_Given("featurePrefix", "feature/")) @@
    (KeyRelease :> C13_Given("releasePrefix", "release/")) @@
    (KeyHotfix :> C13_Given("hotfixPrefix", "hotfix/")) @@
    (KeySupport :> C13_Given("supportPrefix", "support/")) @@
    (KeyVersionTag :> C13_Given("versionTagPrefix", ""))

\* C13: after init has returned successfully all seven settings hold the
\* defaults overridden by the given values, whatever they held before: an
\* init with the values already stored changes no setting, and an init with
\* other values leaves none of the earlier values behind.
C13_InitSettings ==
    (op.kind = "init" /\ op.status = "ok") =>
        /\ DOMAIN settings = Keys
        /\ settings = C13_Expected
        /\ op.pre.settings = C13_Expected => settings = op.pre.settings

\* a repeated init with other values: the custom release and tag prefixes of
\* the first one are back at the defaults
C13_Witness ==
    /\ op.kind = "init"
    /\ op.status = "ok"
    /\ op.pre.settings[KeyRelease] = "rel/"
    /\ op.pre.settings[KeyVersionTag] = "v"
    /\ op.config.releasePrefix = Undefined
    /\ settings[KeyRelease] = "release/"
    /\ settings[KeyVersionTag] = ""

\* an init repeated with the values already stored
C13_WitnessSame ==
    /\ op.kind = "init"
    /\ op.status = "ok"
    /\ op.pre.settings = C13_Expected
    /\ op.pre.settings[KeyRelease] = "rel/"

C15_Message ==
    IF op.tagMessage # Undefined /\ op.tagMessage # "" THEN op.tagMessage
    ELSE IF op.kind = "finishRelease" THEN "Release " \o op.arg
    ELSE "Hotfix " \o op.arg

\* C15: a finishRelease or finishHotfix that returned successfully has
\* created exactly one tag, named {versionTagPrefix}{version}; its message is
\* the given tagMessage when one was given and is not empty, and otherwise
\* "Release {version}" or "Hotfix {version}"; a call that did not return
\* successfully has created at most that tag.
C15_OneTag ==
    op.kind \in TaggingKinds =>
        /\ DOMAIN tags \subseteq DOMAIN op.pre.tags \cup {op.pre.settings[KeyVersionTag] \o op.arg}
        /\ \A t \in DOMAIN op.pre.tags : tags[t] = op.pre.tags[t]
        /\ op.status = "ok" =>
              /\ op.pre.settings[KeyVersionTag] \o op.arg \notin DOMAIN op.pre.tags
              /\ op.pre.settings[KeyVersionTag] \o op.arg \in DOMAIN tags
              /\ tags[op.pre.settings[KeyVersionTag] \o op.arg].msg = C15_Message

\* a release finished under the tag prefix "v" without a tag message
C15_Witness ==
    /\ op.kind = "finishRelease"
    /\ op.status = "ok"
    /\ op.tagMessage = ""
    /\ "v1.0.0" \in DOMAIN tags
    /\ tags["v1.0.0"].msg = "Release 1.0.0"

\* a hotfix finished with a tag message of the user
C15_WitnessGiven ==
    /\ op.kind = "finishHotfix"
    /\ op.status = "ok"
    /\ op.tagMessage = "ship it"
    /\ "1.0.0" \in DOMAIN tags
    /\ tags["1.0.0"].msg = "ship it"

\* the four roles in their fixed order, each with the prefix configured for
\* it, or its default when none is configured
C14_Roles == << "feature", "release", "hotfix", "support" >>

C14_Prefix(role) ==
    CASE role = "feature" ->
            IF settings[KeyFeature] = Unset THEN "feature/" ELSE settings[KeyFeature]
      [] role = "release" ->
            IF settings[KeyRelease] = Unset THEN "release/" ELSE settings[KeyRelease]
      [] role = "hotfix" ->
            IF settings[KeyHotfix] = Unset THEN "hotfix/" ELSE settings[KeyHotfix]
      [] role = "support" ->
            IF settings[KeySupport] = Unset THEN "support/" ELSE settings[KeySupport]

C14_Matching ==
    {i \in 1..4 : /\ Len(head) >= Len(C14_Prefix(C14_Roles[i]))
                  /\ SubSeq(head, 1, Len(C14_Prefix(C14_Roles[i]))) = C14_Prefix(C14_Roles[i])}

C14_DefaultPrefixes ==
    /\ C14_Prefix("feature") = "feature/"
    /\ C14_Prefix("release") = "release/"
    /\ C14_Prefix("hotfix") = "hotfix/"
    /\ C14_Prefix("support") = "support/"

\* C14: in a repository getCurrentBranchType answers the first role, in the
\* order feature, release, hotfix, support, whose prefix (the configured one,
\* or the default) the current branch name starts with, and none (null) when
\* there is no such role; with the default prefixes "feature/login" is a
\* feature branch and "main" is none.
C14_Classify ==
    (result.fn = "getCurrentBranchType" /\ inRepo) =>
        /\ C14_Matching = {} => result.value = Null
        /\ C14_Matching # {} =>
              \E i \in C14_Matching :
                  /\ \A j \in C14_Matching : i <= j
                  /\ result.value = C14_Roles[i]
        /\ (C14_DefaultPrefixes /\ head = "feature/login") => result.value = "feature"
        /\ (C14_DefaultPrefixes /\ head = "main") => result.value = Null

\* a branch that starts with the release and with the hotfix prefix, but not
\* with the feature prefix, is a release branch
C14_Witness ==
    /\ result.fn = "getCurrentBranchType"
    /\ inRepo
    /\ C14_Matching = {2, 3, 4}
    /\ result.value = "release"

\* the two examples of the claim
C14_WitnessExamples ==
    /\ result.fn = "getCurrentBranchType"
    /\ inRepo
    /\ C14_DefaultPrefixes
    /\ head = "main"
    /\ result.value = Null

Tokens ==
    {"<icon>", "<type>", "<scope>", "<subject>", "<body>", "<footer>", "<enter>", "<space>"}

\* C16 as stated: whatever the template and the fields, the text
\* messageCombine returns contains none of the eight placeholder tokens.
C16_AsStated ==
    (result.fn = "messageCombine" /\ result.n = 1) =>
        \A token \in Tokens : ~includes(result.value, token)

\* C17 as stated: rendering the rendered text again, as a template with the
\* same fields, returns it unchanged (here without the version lines, which
\* a second rendering would append a second time).
C17_AsStated ==
    (result.fn = "messageCombine" /\ result.n = 2 /\ ~workspace.autoVersion) =>
        result.value = message.templateContent

\* what a placeholder stands for
C18_Value(token) ==
    CASE token = "<icon>" -> IF workspace.isShowEmoji THEN message.icon ELSE ""
      [] token = "<type>" -> message.type
      [] token = "<scope>" -> message.scope
      [] token = "<subject>" -> message.subject
      [] token = "<body>" -> message.body
      [] token = "<footer>" -> message.footer
      [] token = "<enter>" -> "\n\n"
      [] token = "<space>" -> " "

C18_TokenAt(text, i) ==
    {token \in Tokens : /\ i + Len(token) - 1 <= Len(text)
                        /\ SubSeq(text, i, i + Len(token) - 1) = token}

\* the template with every placeholder that occurs in it replaced by what it
\* stands for, and all other text kept
RECURSIVE C18_Rendered(_, _)
C18_Rendered(text, position) ==
    LET at == {i \in position..Len(text) : C18_TokenAt(text, i) # {}}
        first == CHOOSE i \in at : \A j \in at : i <= j
        token == CHOOSE t \in C18_TokenAt(text, first) : TRUE
    IN  IF at = {} THEN SubSeq(text, position, Len(text))
        ELSE SubSeq(text, position, first - 1) \o C18_Value(token)
             \o C18_Rendered(text, first + Len(token))

\* C18 as stated: the text messageCombine returns is the template with every
\* placeholder replaced by the value of its field (nothing for an empty
\* field, and for the icon when emoji are off), <enter> by two newlines and
\* <space> by a space, the other text kept, the whole trimmed (here without
\* the version lines).
C18_AsStated ==
    (result.fn = "messageCombine" /\ result.n = 1 /\ ~workspace.autoVersion) =>
        result.value = trim(C18_Rendered(message.templateContent, 1))

\* where C18 does hold: fields without placeholder tokens and without
\* replacement patterns, in a template whose placeholders do not nest
C18_PlainFields ==
    (/\ result.fn = "messageCombine" /\ result.n = 1 /\ ~workspace.autoVersion
     /\ message.subject \in {"", "add login"}
     /\ message.templateContent # "<ty<scope>pe><subject>") =>
        result.value = trim(C18_Rendered(message.templateContent, 1))

\* the version the project config reached from the file in focus yields
C19_ConfigVersion ==
    IF workspace.currentFilePath = Undefined THEN Null
    ELSE getProjectVersion(workspace.currentFilePath, workspace.currentProjectName)

\* the tags on the current commit
C19_TagsHere == {t \in DOMAIN tags : inRepo /\ tags[t].commit = branches[head]}

\* C19: getCurrentVersion returns the version of the project config when
\* there is one, whether or not the current commit has a tag; else the tag
\* on the current commit when there is one; and the 8-character hash of the
\* current commit only when there is neither.
C19_Priority ==
    result.fn = "getCurrentVersion" =>
        /\ C19_ConfigVersion # Null => result.value = C19_ConfigVersion
        /\ (C19_ConfigVersion = Null /\ C19_TagsHere # {}) => result.value \in C19_TagsHere
        /\ (C19_ConfigVersion = Null /\ C19_TagsHere = {} /\ inRepo) =>
              (result.value = Hashes[branches[head]] /\ Len(result.value) = 8)
        /\ (inRepo /\ result.value = Hashes[branches[head]]) =>
              (C19_ConfigVersion = Null /\ C19_TagsHere = {})

\* the config value wins over the tag on the current commit
C19_Witness ==
    /\ result.fn = "getCurrentVersion"
    /\ inRepo
    /\ C19_ConfigVersion = "1.2.3"
    /\ C19_TagsHere = {"v1.0.0"}
    /\ result.value = "1.2.3"

\* the hash, for want of a config version and of a tag on the commit
C19_WitnessHash ==
    /\ result.fn = "getCurrentVersion"
    /\ readConfig.found
    /\ C19_ConfigVersion = Null
    /\ "v0.9.0" \in DOMAIN tags
    /\ result.value = "0f9e8d7c"

\* a .gitcommit with two named projects, asked without a project name
C20_Case ==
    /\ result.fn = "getCurrentVersion"
    /\ workspace.currentFilePath # Undefined
    /\ workspace.currentProjectName = Undefined
    /\ readConfig.found
    /\ readConfig.multi
    /\ Len(readConfig.config) = 2

\* C20 as stated: for a config with two named projects and no project name
\* getCurrentVersion does not guess a project: what it returns is not the
\* version of one of the two projects.
C20_AsStated ==
    C20_Case =>
        \A i \in 1..2 :
            result.value # readVersionFromFile(readConfig.config[i].path,
                                               readConfig.config[i].versionRegex)

\* the guard is in getVersionInfo, and only there: asked without a project
\* name (undefined) for a config with projects, it returns the empty string
C20_InfoGuard ==
    (/\ result.fn = "getVersionInfo"
     /\ workspace.currentFilePath # Undefined
     /\ workspace.currentProjectName = Undefined
     /\ readConfig.found
     /\ readConfig.multi
     /\ Len(readConfig.config) = 2) => result.value = ""

\* what the tag and hash steps yield in a repository
C21_FromGit(value) ==
    IF C19_TagsHere # {} THEN value \in C19_TagsHere
    ELSE value = Hashes[branches[head]]

\* the .gitcommit files the claim lists: none, one that is not JSON, a single
\* record without projectName or without path, a config that is not an array
C21_Rejected ==
    LET file == workspace.configFile IN
    \/ ~file.exists
    \/ ~file.parses
    \/ file.configType = "undefined" /\ (file.projectName = "" \/ file.path = "")
    \/ file.configType \in {"object", "null"}

\* C21 as stated: with a missing file, invalid JSON, a single record that
\* lacks projectName or path, or a config that is not an array,
\* getCurrentVersion in a repository raises no error and returns what the
\* exact-tag and commit-hash steps yield.
C21_AsStated ==
    (result.fn = "getCurrentVersion" /\ inRepo /\ workspace.currentFilePath # Undefined
        /\ C21_Rejected) =>
        (result.value # Failure /\ C21_FromGit(result.value))

\* the same holds with "a config that is not an array" read as a config
\* that is present (truthy) and not an array: an object, a non-empty string,
\* a number other than zero, true
C21_TruthyConfig ==
    (result.fn = "getCurrentVersion" /\ inRepo /\ workspace.currentFilePath # Undefined
        /\ C21_Rejected /\ workspace.configFile.configType # "null") =>
        (result.value # Failure /\ C21_FromGit(result.value))

\* a rejected .gitcommit next to a version file the pattern matches
C21_Seen ==
    /\ result.fn = "getCurrentVersion"
    /\ inRepo
    /\ workspace.currentFilePath # Undefined
    /\ workspace.configFile = ObjectConfig
    /\ workspace.files["package.json"] = "version: 1.2.3 \n"
    /\ result.value = "0f9e8d7c"

\* the project config in use has a path and a pattern the constructor
\* accepts, and the version file exists
C22_Case ==
    LET config == getProjectConfig(workspace.currentProjectName) IN
    /\ result.fn = "getCurrentVersion"
    /\ inRepo
    /\ workspace.currentFilePath # Undefined
    /\ config.found
    /\ config.path # "" /\ config.versionRegex # ""
    /\ RegExp(config.versionRegex).valid
    /\ workspace.files[config.path] # Null

C22_Match ==
    LET config == getProjectConfig(workspace.currentProjectName) IN
    match(workspace.files[config.path], RegExp(config.versionRegex))

C22_HasGroup ==
    RegExp(getProjectConfig(workspace.currentProjectName).versionRegex).group

\* the version the config step yields from an extracted text: the text
\* trimmed, and none (the tag and hash steps decide) when nothing is left
C22_Yields(text) ==
    IF trim(text) # "" THEN result.value = trim(text) ELSE C21_FromGit(result.value)

\* C22 as stated: when the pattern matches the version file, the version is
\* the first capture group, trimmed, whenever the pattern has a capture
\* group, and the whole match, trimmed, only when it has none; when the
\* pattern does not match, the tag and hash steps decide.
C22_AsStated ==
    C22_Case =>
        /\ (C22_Match.found /\ C22_HasGroup) => C22_Yields(C22_Match.first)
        /\ (C22_Match.found /\ ~C22_HasGroup) => C22_Yields(C22_Match.whole)
        /\ ~C22_Match.found => C21_FromGit(result.value)

\* the same, for a capture group that has matched at least one character
C22_GroupNotEmpty ==
    (C22_Case /\ ~(C22_Match.found /\ C22_HasGroup /\ C22_Match.first = "")) =>
        /\ (C22_Match.found /\ C22_HasGroup) => C22_Yields(C22_Match.first)
        /\ (C22_Match.found /\ ~C22_HasGroup) => C22_Yields(C22_Match.whole)
        /\ ~C22_Match.found => C21_FromGit(result.value)

\* a group that takes in a trailing blank, which trim removes
C22_SeenTrimmed ==
    /\ C22_Case
    /\ C22_Match.found /\ C22_HasGroup
    /\ C22_Match.first = "1.2.3 "
    /\ result.value = "1.2.3"

\* a .gitcommit with projects, asked with a project name
C30_Case ==
    /\ result.fn = "getCurrentVersion"
    /\ inRepo
    /\ workspace.currentFilePath # Undefined
    /\ workspace.currentProjectName # Undefined
    /\ readConfig.found
    /\ readConfig.multi
    /\ Len(readConfig.config) > 0

\* the sub-records whose projectName is the given name
C30_Named ==
    {i \in 1..Len(readConfig.config) :
        readConfig.config[i].projectName = workspace.currentProjectName}

C30_VersionOf(i) ==
    readVersionFromFile(readConfig.config[i].path, readConfig.config[i].versionRegex)

\* C30 as stated: of a multi-project config the sub-record in use is the one
\* named as asked, and when no sub-record has that name the config step
\* yields no version (the tag and hash steps decide), not the version of
\* another project.
C30_AsStated ==
    C30_Case =>
        /\ \A i \in C30_Named :
              IF C30_VersionOf(i) # Null THEN result.value = C30_VersionOf(i)
              ELSE C21_FromGit(result.value)
        /\ C30_Named = {} => C21_FromGit(result.value)

\* the first half alone: a name that a sub-record has selects that one
C30_Selected ==
    C30_Case =>
        \A i \in C30_Named :
            IF C30_VersionOf(i) # Null THEN result.value = C30_VersionOf(i)
            ELSE C21_FromGit(result.value)

\* the order in which messageCombine substitutes
C29_Implemented ==
    << "<icon>", "<type>", "<scope>", "<subject>", "<body>", "<footer>", "<enter>",
       "<space>" >>

\* the orders that differ from it in the places of two substitutions (and,
\* for i = j, the implemented order itself)
C29_Orders ==
    { [k \in 1..8 |-> IF k = i THEN C29_Implemented[j]
                      ELSE IF k = j THEN C29_Implemented[i]
                      ELSE C29_Implemented[k]] : i, j \in 1..8 }

\* the eight substitutions applied to a text in a given order
RECURSIVE C29_InOrder(_, _, _)
C29_InOrder(str, order, i) ==
    IF i > Len(order) THEN str
    ELSE C29_InOrder(replace(str, order[i], C18_Value(order[i])), order, i + 1)

\* C29 as stated: whatever the template and the fields, the eight
\* substitutions applied in another order give the text messageCombine
\* returns (here without the version lines).
C29_AsStated ==
    (result.fn = "messageCombine" /\ result.n = 1 /\ ~workspace.autoVersion) =>
        \A order \in C29_Orders :
            trim(C29_InOrder(message.templateContent, order, 1)) = result.value

\* the implemented order, applied step by step, is what messageCombine returns
C29_ImplementedOrder ==
    (result.fn = "messageCombine" /\ result.n = 1 /\ ~workspace.autoVersion) =>
        trim(C29_InOrder(message.templateContent, C29_Implemented, 1)) = result.value

\* the order is immaterial when no field value holds a placeholder token or
\* a replacement pattern and the placeholders of the template do not nest
C29_PlainFields ==
    (/\ result.fn = "messageCombine" /\ result.n = 1 /\ ~workspace.autoVersion
     /\ message.subject \in {"", "add login"}
     /\ message.templateContent # "<ty<scope>pe><subject>") =>
        \A order \in C29_Orders :
            trim(C29_InOrder(message.templateContent, order, 1)) = result.value

----------------------------------------------------------------------------
(* C23: completing a commit session *)

\* the field menu has been answered "complete" in this step
C23_Completes == session'.writes # session.writes

\* version resolution has no outcome: autoVersion is off, the git extension
\* has no repository, or the project pick of a multi-project config was
\* declined
C23_Declined ==
    /\ readConfig.found
    /\ readConfig.multi
    /\ Len(readConfig.config) > 0
    /\ workspace.currentProjectName = Undefined
    /\ workspace.currentFilePath # Undefined

C23_NoVersion == ~workspace.autoVersion \/ ~inRepo \/ C23_Declined

\* C23: whenever the user completes a commit session the commit input box
\* is set to the rendered template text, whatever version resolution comes
\* to: the box starts with the rendered text, holds nothing else when
\* version resolution has no outcome, and otherwise holds nothing else but
\* the version lines.
C23_Rendered ==
    [][C23_Completes =>
          LET rendered == trim(substitute(message))
              box == session'.inputBox
          IN  /\ Len(box) >= Len(rendered)
              /\ SubSeq(box, 1, Len(rendered)) = rendered
              /\ C23_NoVersion => box = rendered
              /\ box # rendered =>
                    /\ workspace.autoVersion
                    /\ SubSeq(trim(SubSeq(box, Len(rendered) + 1, Len(box))), 1, 9)
                          = "Version: "]_vars

\* a session was completed after the project pick of a multi-project config
\* had been declined, with autoVersion on: the box holds the rendered text
\* and no version lines
C23_SeenDeclined ==
    /\ session.writes = 1
    /\ inRepo
    /\ workspace.autoVersion
    /\ C23_Declined
    /\ session.inputBox = ":bug: fix(core): add login"

----------------------------------------------------------------------------
(* C24: the subject is mandatory *)

\* C24 as stated: whenever a session ends with the message written to the
\* commit input box, the subject used for rendering is not empty.
C24_AsStated == [][C23_Completes => message.subject # ""]_vars

----------------------------------------------------------------------------
(* C25: the length of the subject *)

\* C25 as stated: whenever a session ends with the message written to the
\* commit input box, the subject that is rendered has no more than
\* MaxSubjectWords characters.
C25_AsStated == [][C23_Completes => Len(message.subject) <= MaxSubjectWords]_vars

----------------------------------------------------------------------------
(* C27: the role of the checked-out branch around start and finish *)

C27_Finishes == {"finishFeature", "finishRelease", "finishHotfix"}

C27_Started ==
    ("startFeature" :> "feature") @@ ("startRelease" :> "release")
    @@ ("startHotfix" :> "hotfix")

C27_Finished ==
    /\ op.status = "ok"
    /\ op.kind = "finishHotfix"
    /\ op.pre.head = op.branch
    /\ head = settings[KeyDevelop]

----------------------------------------------------------------------------
(* C26: "finish the current branch" under configured prefixes *)

\* C26 as stated: whenever "finish current branch" is chosen on a feature,
\* release or hotfix branch, the finish operation that starts is the one of
\* the checked-out branch, whatever the configured prefix.
C26_AsStated ==
    [][gitFlowShow /\ op'.status = "running" => op'.branch = head]_vars

\* What holds: when the prefix of the role is the default one, the finish
\* operation is the one of the checked-out branch.
C26_DefaultPrefix ==
    [][/\ gitFlowShow
       /\ op'.status = "running"
       /\ settings[KeyFeature] = "feature/"
       /\ settings[KeyRelease] = "release/"
       /\ settings[KeyHotfix] = "hotfix/"
       => op'.branch = head]_vars

----------------------------------------------------------------------------
(* C28: finishing a release or a hotfix again *)

\* the stable branch of the running operation, before it began
C28_Master == op.pre.branches[settings[KeyMaster]]

C28_Develop == op.pre.branches[settings[KeyDevelop]]

\* a finish of a release or a hotfix is invoked for the second time: the
\* first left the stable branch merged and tagged, reached the development
\* branch and failed at the merge into it
C28_Retry ==
    /\ op.n = 2
    /\ op.kind \in {"finishRelease", "finishHotfix"}
    /\ op.status # "idle"
    /\ op.branch \in DOMAIN op.pre.branches
    /\ op.tag \in DOMAIN op.pre.tags
    /\ op.pre.head = settings[KeyDevelop]
    /\ Contains(C28_Master, op.pre.branches[op.branch])
    /\ ~Contains(C28_Develop, op.pre.branches[op.branch])

\* the command that ended the operation could not have succeeded in the
\* repository as it is, whatever the operator has resolved
C28_Doomed(failed) ==
    \/ failed.c = "tag" /\ failed.a \in DOMAIN tags
    \/ failed.c \in {"checkout", "merge"} /\ failed.a \notin DOMAIN branches

\* C28 as stated: the second invocation is not ended by the repository
\* itself; it fails only where a command is rejected for a cause outside
\* (a conflict, a dirty tree), which the operator resolves.
C28_AsStated ==
    C28_Retry /\ op.status = "error" /\ Len(log) > 0 => ~C28_Doomed(log[Len(log)])

\* What holds instead: the second invocation never completes.
C28_NeverCompletes == C28_Retry => op.status # "ok"

C28_Retried == C28_Retry /\ op.status = "error"

----------------------------------------------------------------------------
(* C31: the version line of getVersionInfo *)

\* the first line of the text getVersionInfo has returned
C31_Line ==
    LET ends == {i \in 1..Len(result.value) : SubSeq(result.value, i, i) = "\n"}
    IN  IF ends = {} THEN result.value ELSE SubSeq(result.value, 1, Min(ends) - 1)

\* the context the claim gives the version line, the name of a project
\* without projectName being written as given ("()" when config is TRUE) or
\* as the label "config file"
C31_Context(label) ==
    LET filePath == workspace.currentFilePath
        projectName == workspace.currentProjectName
        currentVersion == getCurrentVersion(filePath, projectName)
        fromConfig == filePath # Undefined
                      /\ getProjectVersion(filePath, projectName) # Null
        name == getProjectConfig(projectName).projectName
    IN  IF fromConfig
            THEN IF name # "" THEN " (" \o name \o ")" ELSE label
        ELSE IF getLatestTag # Null /\ getLatestTag # currentVersion
            THEN " (based on " \o getLatestTag \o ")"
        ELSE ""

----------------------------------------------------------------------------
(* C32: the branch line of getVersionInfo *)

\* the last characters of the text getVersionInfo has returned
C32_Ending(n) ==
    IF Len(result.value) < n THEN ""
    ELSE SubSeq(result.value, Len(result.value) - n + 1, Len(result.value))

\* C32 as stated: whenever a branch is checked out, whatever its name, the
\* text getVersionInfo returns ends with the line "Branch: <branchName>";
\* the line is left out only when no branch is checked out.
C32_AsStated ==
    result.fn = "getVersionInfo" /\ result.value # "" /\ inRepo =>
        LET line == "\nBranch: " \o head
        IN  head # "HEAD" <=> C32_Ending(Len(line)) = line

\* What holds: the line is there exactly when what git prints for HEAD does
\* not contain the word HEAD.
C32_WithoutHEAD ==
    result.fn = "getVersionInfo" /\ result.value # "" /\ inRepo =>
        LET line == "\nBranch: " \o head
        IN  ~includes(head, "HEAD") <=> C32_Ending(Len(line)) = line

----------------------------------------------------------------------------
(* C33: the field set between two commit sessions *)

\* C33 as stated: whenever no session is under way, every field of the field
\* set, the template name and content included, is empty and no field is
\* marked as edited.
C33_AsStated ==
    session.pc = "idle" => message = NoMessage /\ session.edited = {}

\* What holds: between sessions every field other than the template name and
\* content is empty and no field is marked as edited.
C33_FieldsEmpty ==
    session.pc = "idle" =>
        /\ [message EXCEPT !.templateName = "", !.templateContent = ""] = NoMessage
        /\ session.edited = {}

----------------------------------------------------------------------------
(* C34: the file path and the project name of an earlier session *)

\* the prompts that open after checkAndSelectProject has begun
C34_Selecting == {"selectProject", "selectTemplate", "selectType", "selectDetail",
                  "inputDetail"}

\* C34: once showCommit has been invoked the file path is no longer the one
\* of the earlier session, and from the project pick on, so at every
\* rendering of the message, the project name is not the one of the earlier
\* session either.
C34_Overwritten ==
    /\ session.n > 0 => workspace.currentFilePath # StalePath
    /\ session.pc \in C34_Selecting => workspace.currentProjectName # StaleProject
    /\ session.writes > 0 => workspace.currentProjectName # StaleProject

\* a later session has been completed with a project picked in it
C34_Picked ==
    /\ session.writes = 1
    /\ workspace.currentProjectName = "web"
    /\ workspace.currentFilePath = "src/index.ts"

----------------------------------------------------------------------------
(* C35: calls and sessions that overlap *)

\* the branch the call has checked out last
C35_CheckedOut(o) ==
    LET done == {i \in 1..(o.pc - 1) : o.prog[i].c = "checkout"}
    IN  IF done = {} THEN o.pre.head
        ELSE o.prog[CHOOSE i \in done : \A j \in done : j <= i].a

\* the next command of the call is a merge, a tag or a branch deletion, and
\* the branch that is checked out is not the one the call has checked out
C35_WrongBranch ==
    /\ op.status = "running"
    /\ cur.c \in {"merge", "tag", "branch-d"}
    /\ head # C35_CheckedOut(op)

\* the field menu that is open shows field values stored by another session
C35_ForeignFields ==
    /\ session.pc = "selectDetail"
    /\ session.author \notin {0, session.id}

C35_ReadsOther ==
    /\ C35_ForeignFields
    /\ session.id = 1
    /\ session.author = 2
    /\ message.subject = "add login"

----------------------------------------------------------------------------
(* C36: the queries change nothing and do not throw *)

C36_Lists == {"getFeatureBranches", "getReleaseBranches", "getHotfixBranches"}

\* what a query may answer: a boolean, a role or none, a set of branches
C36_Answers(fn, value) ==
    CASE fn = "isInitialized" -> value \in BOOLEAN
      [] fn = "getCurrentBranchType" ->
            value \in {Null, "feature", "release", "hotfix", "support"}
      [] fn \in C36_Lists -> value \subseteq DOMAIN branches

\* what a query answers outside a repository
C36_Fallback(fn) ==
    CASE fn = "isInitialized" -> FALSE
      [] fn = "getCurrentBranchType" -> Null
      [] fn \in C36_Lists -> {}

\* C36: a query leaves the current branch, the branches, the tags and the
\* settings as they are; it answers false or true, a role or none, or a list
\* of branches, never an error; and outside a repository it answers false,
\* none or the empty list.
C36_NonMutating ==
    [][result'.n # result.n =>
          /\ head' = head
          /\ branches' = branches
          /\ tags' = tags
          /\ settings' = settings
          /\ C36_Answers(result'.fn, result'.value)
          /\ ~inRepo => result'.value = C36_Fallback(result'.fn)]_vars

\* in an initialized repository isInitialized has answered false, a git
\* command having rejected inside it
C36_Caught ==
    /\ result.fn = "isInitialized"
    /\ result.value = FALSE
    /\ inRepo
    /\ settings[KeyMaster] = "master"

----------------------------------------------------------------------------
(* C37: the template of the session is the template that is rendered *)

\* C37 as stated: whenever a session is completed, the template that is
\* rendered is the template picked at the start of that session.
C37_AsStated ==
    [][C23_Completes => message.templateContent = session.template]_vars

\* What holds: the template that is rendered is the one picked at the start
\* of the session, or none at all.
C37_PickedOrNone ==
    [][C23_Completes => message.templateContent \in {session.template, ""}]_vars

----------------------------------------------------------------------------
(* C38: the commit input box is written on "complete" and nowhere else *)

\* C38: a step that changes the commit input box is the answer "complete"
\* to the field menu, it writes the rendering of the message as it stands,
\* and it is the only write of its session; every other step of a session
\* leaves the input box as it was.
C38_OnlyComplete ==
    [][/\ session'.inputBox # session.inputBox \/ C23_Completes
            => /\ session.pc = "selectDetail"
               /\ session'.writes = session.writes + 1
               /\ session'.inputBox = messageCombine(message)
       /\ session'.writes <= session'.n]_vars

\* a session was completed and the input box holds its message
C38_Written ==
    /\ session.pc = "idle"
    /\ session.writes = 1
    /\ session.inputBox # ""

\* a session that went through the menu ended without a write
C38_Untouched ==
    /\ session.pc = "idle"
    /\ session.n = 1
    /\ session.writes = 0
    /\ session.inputBox = ""
    /\ message.type = "" /\ message.templateContent = "" /\ session.template # ""

----------------------------------------------------------------------------
(* C39: isInitialized answers true only when all seven settings are written *)

\* C39 as stated: whenever no call is in flight and isInitialized answers
\* true, each of the seven workflow settings has been written, so a start
\* that passes the initialization check finds the settings it reads.
C39_AsStated ==
    op.status # "running" /\ isInitialized => \A k \in Keys : settings[k] # Unset

\* What holds: a start that passed the initialization check and still found
\* a setting missing follows an init that did not run to its end.
C39_StartAfterPartialInit ==
    /\ op.kind \in {"startFeature", "startRelease", "startHotfix"}
    /\ op.status = "error" /\ op.err = "git" /\ op.prog = << >>
    => isInitialized /\ Missing(Keys)
====
